---- MODULE Spec2Model ----
(***************************************************************************)
(* SkillSync backend, three parts that share the store:                    *)
(*   - the project-membership state machine of                             *)
(*     src/skillsync-backend/src/controllers/project.controller.js (Spec), *)
(*   - the rating ledger of                                                *)
(*     src/skillsync-backend/src/services/reputation.service.js            *)
(*     (ReputationSpec),                                                   *)
(*   - the recommendation of the matching service, src/unnamed/part_001    *)
(*     (RankingSpec).                                                      *)
(* Each specification runs one part and leaves the state of the other two  *)
(* as it is.                                                               *)
(*                                                                         *)
(* Every handler is an async function; Node runs the code between two      *)
(* awaits without interruption, and every await is one Prisma query.  A    *)
(* step of the model is therefore one query together with the synchronous  *)
(* code that follows it, up to the next query or the response.  Several    *)
(* requests are in flight at once and their steps interleave freely.       *)
(***************************************************************************)
EXTENDS Integers, FiniteSets, Sequences, Bags, TLC

(* ---------------------------- bounds ----------------------------------- *)
NumUsers == 2          \* users known to the system
MaxProjects == 3       \* project rows that can ever be created
MaxInFlight == 2       \* requests being handled at the same time
MaxRequests == 3       \* requests the server accepts during a run
MaxRateInFlight == 2   \* rateTeammate calls running at the same time
MaxRatings == 2        \* rateTeammate calls made during a run

NumRankUsers == 23     \* user rows the recommendation reads
MaxEdits == 1          \* writes to the user rows while it runs
MaxRecommendInFlight == 1  \* getRecommendedUsers calls running at a time

MaxSkillIds == 40      \* distinct skills the two compared sets draw from
MaxMixedSkillIds == 4  \* skills of which every pair of subsets is compared
MaxActiveCount == 5    \* largest activeProjectCount that is scored

MaxConns == 2          \* connections the socket server has accepted
MaxMessages == 1       \* Message rows created or about to be created
MaxNotifications == 1  \* Notification rows stored or about to be stored
MaxHubInFlight == 1    \* handlers of the socket awaiting the store at a time

\* the reputationScore a new account is given
DefaultReputation == 100

\* the limits of getRecommendedUsers
ReputationThreshold == 70
PoolLimit == 100
TopN == 20

Users == 1..NumUsers
ProjectIds == 1..MaxProjects
UnknownId == MaxProjects + 1   \* an id that never names a project row
AllIds == ProjectIds \cup {UnknownId}
NoId == 0              \* a missing projectId in the request body

(* ---------------------------- state ------------------------------------ *)
VARIABLES
    projectStatus,       \* Project.status per id; "none" = no such row
    projectCreatedBy,    \* Project.createdBy per id; 0 = no such row
    projectMember,       \* the ProjectMember rows
    activeProjectCount,  \* User.activeProjectCount per user
    req,                 \* the handlers in flight (a bag): await and locals
    lastRes,             \* the response sent last, with its handler
    served,              \* number of requests accepted so far
    reputationScore,     \* User.reputationScore per user
    reputationLog,       \* the ReputationLog rows, in order of creation
    rateReq,             \* the rateTeammate calls in flight (a bag)
    lastRate,            \* the rateTeammate call settled last, and how
    rated,               \* number of rateTeammate calls made so far
    reputationBase,      \* User.reputationScore before the first call
    users,               \* the User rows as getRecommendedUsers reads them
    scan,                \* the order in which the store returns equal rows
    recReq,              \* the getRecommendedUsers calls in flight
    recommended,         \* the getRecommendedUsers call settled last
    ctlReq,              \* the GET /users/recommended handlers in flight
    ctlRes,              \* the response of that handler sent last
    edits,               \* number of writes to the user rows so far
    floorReq,            \* per user: rateTeammate calls about to write 0
    calcArgs,            \* the arguments of the scoring function called
    calcResult,          \* what that call returned
    sockets,             \* per connection: connected, socket.userId, rooms
    onlineUsers,         \* the Map userId -> socket; 0 = no entry
    messages,            \* the Message rows, in order of creation
    notifications,       \* the Notification rows, in order of creation
    sendReq,             \* the sendMessage handlers in flight
    readReq,             \* the markAsRead handlers in flight
    emitted,             \* the events the handler step taken last emitted
    announced            \* the users a userOnline event was broadcast for

projectVars == <<projectStatus, projectCreatedBy, projectMember,
                 activeProjectCount, req, lastRes, served>>
reputationVars == <<reputationScore, reputationLog, rateReq, lastRate, rated,
                    reputationBase>>
rankingVars == <<users, scan, recReq, recommended, ctlReq, ctlRes, edits,
                 floorReq>>
scoringVars == <<calcArgs, calcResult>>
hubVars == <<sockets, onlineUsers, messages, notifications, sendReq, readReq,
            emitted, announced>>
vars == <<projectVars, reputationVars, rankingVars, scoringVars, hubVars>>
dbVars == <<projectStatus, projectCreatedBy, projectMember, activeProjectCount>>

(* ---------------------------- responses -------------------------------- *)
Res(code, text) == [status |-> code, body |-> text]
NoRes == Res(0, "")

ResCreateFields == Res(400, "Title, description and domain are required")
ResCap == Res(400, "You have reached the maximum limit of 2 active projects")
ResCreated == Res(201, "Project created successfully")
ResProjectIdRequired == Res(400, "projectId is required")
ResJoinNoProject == Res(400, "Project not found or not active")
ResAlreadyMember == Res(400, "You are already a member of this project")
ResJoined == Res(200, "Successfully joined the project")
ResNotMember == Res(404, "You are not a member of this project")
ResLeft == Res(200, "Successfully left the project")
ResProjectNotFound == Res(404, "Project not found")
ResOnlyCreator == Res(403, "Only the project creator can mark it as completed")
ResAlreadyCompleted == Res(400, "Project is already completed")
\* the apostrophe of the message is U+2019, written here as its escape
ResCompleted ==
    Res(200, "Project marked as completed. "
             \o "All members\\u2019 active project counts updated.")
ResInternal == Res(500, "Internal server error")

(* ---------------------------- helpers ---------------------------------- *)
\* a handler suspended at the await of the query named by `at`
Handler(o, u, p, at) == [op |-> o, pc |-> at, userId |-> u, projectId |-> p,
                         status |-> "none", members |-> {}]

InFlight == BagToSet(req)
At(q, o, at) == q \in InFlight /\ q.op = o /\ q.pc = at

\* a request arrives and its handler starts
Accept ==
    /\ served < MaxRequests
    /\ BagCardinality(req) < MaxInFlight
    /\ served' = served + 1

\* the handler awaits its first query
Start(q) ==
    /\ req' = req (+) SetToBag({q})
    /\ UNCHANGED <<lastRes, reputationVars, rankingVars, scoringVars, hubVars>>

\* the handler goes on to its next await
Continue(q, next) ==
    /\ req' = (req (-) SetToBag({q})) (+) SetToBag({next})
    /\ UNCHANGED <<lastRes, reputationVars, rankingVars, scoringVars, hubVars>>

\* res.status(..).json(..)
Respond(o, response) ==
    /\ lastRes' = [op |-> o, res |-> response]
    /\ UNCHANGED <<reputationVars, rankingVars, scoringVars, hubVars>>

\* the response that ends a handler in flight
Reply(q, response) ==
    /\ req' = req (-) SetToBag({q})
    /\ Respond(q.op, response)

Row(p, u, role) == [projectId |-> p, userId |-> u, role |-> role]
IsMember(p, u) == \E m \in projectMember : m.projectId = p /\ m.userId = u

\* the cap test of createProject and joinProject
CapReachedOffByOne(count) == count > 2
CapReached(count) == count >= 2

\* status given to a new project row
NewProjectStatusCompleted == "completed"
NewProjectStatus == "active"

\* the id the store gives the next project row
FreshId == CHOOSE p \in ProjectIds :
              /\ projectStatus[p] = "none"
              /\ \A q \in ProjectIds : projectStatus[q] = "none" => p <= q

\* the store has a row left for the project of every create in flight
RowsLeft ==
    Cardinality({p \in ProjectIds : projectStatus[p] = "none"})
        > BagCardinality([q \in {x \in InFlight :
                                    x.op = "createProject"
                                    /\ x.pc \in {"findUser", "createProject"}}
                            |-> CopiesIn(q, req)])

\* the projectId of a request body: a project whose leader row has been
\* written (ids are handed out by the store; GET /projects/my lists the
\* project to its creator as soon as that row is there, before the create
\* has incremented the count and answered 201), an id that names no
\* project, or none at all
Disclosed(p) ==
    /\ projectStatus[p] # "none"
    /\ \A q \in InFlight : ~(/\ q.op = "createProject"
                              /\ q.projectId = p
                              /\ q.pc = "createMember")
BodyProjectIds == {p \in ProjectIds : Disclosed(p)} \cup {UnknownId, NoId}

(* ---------------------------- initial state ---------------------------- *)
ProjectInit ==
    /\ projectStatus = [p \in AllIds |-> "none"]
    /\ projectCreatedBy = [p \in AllIds |-> 0]
    /\ projectMember = {}
    /\ activeProjectCount = [u \in Users |-> 0]
    /\ req = EmptyBag
    /\ lastRes = [op |-> "none", res |-> NoRes]
    /\ served = 0

\* user ids are strings; a string is the sequence of its characters
UserIds == {<<"1">>, <<"1", "2">>}

\* the settled rateTeammate call: its arguments, whether the promise was
\* resolved or rejected, the message, and the fields of the resolved value
Settled(r, u, p, x, how, text, adj, rep) ==
    [raterId |-> r, ratedUserId |-> u, projectId |-> p, rating |-> x,
     outcome |-> how, message |-> text, adjustment |-> adj,
     newReputation |-> rep]
NoRate == Settled(<<>>, <<>>, 0, 0, "none", "", 0, 0)

\* no rateTeammate call has been made: every user at the reputation a new
\* account is given, an empty log
ReputationNew ==
    /\ reputationScore = [u \in UserIds |-> DefaultReputation]
    /\ reputationBase = reputationScore
    /\ reputationLog = <<>>
    /\ rateReq = EmptyBag
    /\ lastRate = NoRate
    /\ rated = 0

\* the getRecommendedUsers call settled last: who asked, whether the promise
\* was resolved or rejected, the list, and what the call had read (the
\* requester's sets, the rows, the order the store went through them)
NoRead == [mySkillIds |-> {}, myDomainIds |-> {}, table |-> <<>>,
           order |-> <<>>]
NoList == [for |-> 0, outcome |-> "none", list |-> <<>>, read |-> NoRead]
\* no response of GET /users/recommended yet; a response has its status, the
\* body of res.json and what the handler had read
NoResponse == [for |-> 0, status |-> 0, recommended |-> <<>>,
               totalCandidates |-> 0, yourSkillCount |-> 0,
               yourDomainCount |-> 0, read |-> NoRead]
RankingNew ==
    /\ users = <<>>
    /\ scan = <<>>
    /\ recReq = {}
    /\ recommended = NoList
    /\ ctlReq = {}
    /\ ctlRes = NoResponse
    /\ edits = 0
    /\ floorReq = <<>>

\* no scoring function has been called
NotCalled == -1
ScoringNew ==
    /\ calcArgs = [fn |-> "none", mySkillIds |-> {}, candidateSkillIds |-> {},
                   count |-> 0]
    /\ calcResult = NotCalled

\* an event with nothing in it; the events emitted are this record with
\* the name, the connections it is written to and its payload filled in
NoEvent == [ev |-> "", to |-> {}, userId |-> 0, messageId |-> 0,
            row |-> [senderId |-> 0, receiverId |-> 0, content |-> <<>>,
                     isRead |-> FALSE],
            message |-> "", isOnline |-> FALSE, isTyping |-> FALSE]

\* the socket server right after initSocket: no connection yet authenticated,
\* the Map empty, nothing stored and nothing emitted
HubNew ==
    /\ sockets = [c \in 1..MaxConns |->
                     [connected |-> TRUE, userId |-> 0, rooms |-> {}]]
    /\ onlineUsers = [u \in Users |-> 0]
    /\ messages = <<>>
    /\ notifications = <<>>
    /\ sendReq = {}
    /\ readReq = {}
    /\ emitted = [op |-> "none", conn |-> 0, events |-> <<>>]
    /\ announced = {}

Init == ProjectInit /\ ReputationNew /\ RankingNew /\ ScoringNew /\ HubNew

(* ---------------------------- createProject ---------------------------- *)
\* entry: body validation, then user.findUnique is issued
createProject(u, fieldsOk) ==
    /\ Accept
    /\ IF ~fieldsOk
       THEN Respond("createProject", ResCreateFields) /\ UNCHANGED req
       ELSE RowsLeft /\ Start(Handler("createProject", u, NoId, "findUser"))
    /\ UNCHANGED dbVars

\* user.findUnique and the cap test
createProject_findUser(q) ==
    /\ At(q, "createProject", "findUser")
    /\ IF CapReached(activeProjectCount[q.userId])
       THEN Reply(q, ResCap)
       ELSE Continue(q, [q EXCEPT !.pc = "createProject"])
    /\ UNCHANGED <<dbVars, served>>

\* project.create
createProject_create(q) ==
    /\ At(q, "createProject", "createProject")
    /\ projectStatus' = [projectStatus EXCEPT ![FreshId] = NewProjectStatus]
    /\ projectCreatedBy' = [projectCreatedBy EXCEPT ![FreshId] = q.userId]
    /\ Continue(q, [q EXCEPT !.projectId = FreshId, !.pc = "createMember"])
    /\ UNCHANGED <<projectMember, activeProjectCount, served>>

\* projectMember.create with role leader; the unique key (projectId, userId)
\* makes the insert throw when the row exists, and the catch answers 500
createProject_createMember(q) ==
    /\ At(q, "createProject", "createMember")
    /\ IF IsMember(q.projectId, q.userId)
       THEN /\ Reply(q, ResInternal)
            /\ UNCHANGED projectMember
       ELSE /\ projectMember' = projectMember \cup
                                  {Row(q.projectId, q.userId, "leader")}
            /\ Continue(q, [q EXCEPT !.pc = "incrementCount"])
    /\ UNCHANGED <<projectStatus, projectCreatedBy, activeProjectCount, served>>

\* user.update increment, then 201
createProject_increment(q) ==
    /\ At(q, "createProject", "incrementCount")
    /\ activeProjectCount' = [activeProjectCount EXCEPT ![q.userId] = @ + 1]
    /\ Reply(q, ResCreated)
    /\ UNCHANGED <<projectStatus, projectCreatedBy, projectMember, served>>

(* ---------------------------- joinProject ------------------------------ *)
\* entry: projectId test, then user.findUnique is issued
joinProject(u, p) ==
    /\ Accept
    /\ IF p = NoId
       THEN Respond("joinProject", ResProjectIdRequired) /\ UNCHANGED req
       ELSE Start(Handler("joinProject", u, p, "findUser"))
    /\ UNCHANGED dbVars

\* user.findUnique and the cap test
joinProject_findUser(q) ==
    /\ At(q, "joinProject", "findUser")
    /\ IF CapReached(activeProjectCount[q.userId])
       THEN Reply(q, ResCap)
       ELSE Continue(q, [q EXCEPT !.pc = "findProject"])
    /\ UNCHANGED <<dbVars, served>>

\* the answer of joinProject to the project row it read, NoRes = go on
JoinProjectCheck(status) ==
    IF status = "none" \/ status # "active" THEN ResJoinNoProject ELSE NoRes

\* project.findUnique and the exists-and-active test
joinProject_findProject(q) ==
    /\ At(q, "joinProject", "findProject")
    /\ LET answer == JoinProjectCheck(projectStatus[q.projectId])
       IN IF answer # NoRes THEN Reply(q, answer)
          ELSE Continue(q, [q EXCEPT !.pc = "findMember"])
    /\ UNCHANGED <<dbVars, served>>

\* projectMember.findUnique and the already-a-member test
joinProject_findMember(q) ==
    /\ At(q, "joinProject", "findMember")
    /\ LET answer == IF IsMember(q.projectId, q.userId)
                        THEN ResAlreadyMember ELSE NoRes
       IN IF answer # NoRes THEN Reply(q, answer)
          ELSE Continue(q, [q EXCEPT !.pc = "createMember"])
    /\ UNCHANGED <<dbVars, served>>

\* where a joinProject handler is after projectMember.create threw: nothing
\* inside the try block catches it, so the catch block answers 500 and the
\* handler is done
AfterThrowGoesOn(q) == "incrementCount"
AfterThrow(q) == "done"

\* projectMember.create with role member: an insert for a pair that has a
\* row is refused on the compound key projectId_userId and the query throws
joinProject_createMember(q) ==
    /\ At(q, "joinProject", "createMember")
    /\ IF IsMember(q.projectId, q.userId)
       THEN /\ IF AfterThrow(q) = "done"
                  THEN Reply(q, ResInternal)
                  ELSE Continue(q, [q EXCEPT !.pc = AfterThrow(q)])
            /\ UNCHANGED projectMember
       ELSE /\ projectMember' = projectMember \cup
                                  {Row(q.projectId, q.userId, "member")}
            /\ Continue(q, [q EXCEPT !.pc = "incrementCount"])
    /\ UNCHANGED <<projectStatus, projectCreatedBy, activeProjectCount, served>>

\* user.update increment, then 200
joinProject_increment(q) ==
    /\ At(q, "joinProject", "incrementCount")
    /\ activeProjectCount' = [activeProjectCount EXCEPT ![q.userId] = @ + 1]
    /\ Reply(q, ResJoined)
    /\ UNCHANGED <<projectStatus, projectCreatedBy, projectMember, served>>

(* ---------------------------- leaveProject ----------------------------- *)
\* entry: projectId test, then projectMember.findUnique is issued
leaveProject(u, p) ==
    /\ Accept
    /\ IF p = NoId
       THEN Respond("leaveProject", ResProjectIdRequired) /\ UNCHANGED req
       ELSE Start(Handler("leaveProject", u, p, "findMember"))
    /\ UNCHANGED dbVars

\* projectMember.findUnique and the membership test
leaveProject_findMember(q) ==
    /\ At(q, "leaveProject", "findMember")
    /\ IF ~IsMember(q.projectId, q.userId)
       THEN Reply(q, ResNotMember)
       ELSE Continue(q, [q EXCEPT !.pc = "findProject"])
    /\ UNCHANGED <<dbVars, served>>

\* project.findUnique select status: kept in the local `project`
leaveProject_findProject(q) ==
    /\ At(q, "leaveProject", "findProject")
    /\ Continue(q, [q EXCEPT !.status = projectStatus[q.projectId],
                             !.pc = "deleteMember"])
    /\ UNCHANGED <<dbVars, served>>

\* what leaveProject takes off the count, given the status it read
LeaveDecrement(status) == IF status = "active" THEN 1 ELSE 0

\* projectMember.delete; it throws when the row is gone.  After it the
\* handler either issues the decrement or answers 200
leaveProject_deleteMember(q) ==
    /\ At(q, "leaveProject", "deleteMember")
    /\ IF ~IsMember(q.projectId, q.userId)
       THEN /\ Reply(q, ResInternal)
            /\ UNCHANGED projectMember
       ELSE /\ projectMember' = {m \in projectMember :
                                   ~(m.projectId = q.projectId
                                     /\ m.userId = q.userId)}
            /\ IF LeaveDecrement(q.status) # 0
               THEN Continue(q, [q EXCEPT !.pc = "decrementCount"])
               ELSE Reply(q, ResLeft)
    /\ UNCHANGED <<projectStatus, projectCreatedBy, activeProjectCount, served>>

\* user.update decrement, then 200
leaveProject_decrement(q) ==
    /\ At(q, "leaveProject", "decrementCount")
    /\ activeProjectCount' = [activeProjectCount EXCEPT ![q.userId] =
                                 @ - LeaveDecrement(q.status)]
    /\ Reply(q, ResLeft)
    /\ UNCHANGED <<projectStatus, projectCreatedBy, projectMember, served>>

(* ---------------------------- completeProject -------------------------- *)
\* entry: projectId test, then project.findUnique is issued
completeProject(u, p) ==
    /\ Accept
    /\ IF p = NoId
       THEN Respond("completeProject", ResProjectIdRequired) /\ UNCHANGED req
       ELSE Start(Handler("completeProject", u, p, "findProject"))
    /\ UNCHANGED dbVars

\* the answer of completeProject to the project row it read, NoRes = go on
CompleteCheckStatusFirst(status, createdBy, userId) ==
    IF status = "none" THEN ResProjectNotFound
    ELSE IF status = "completed" THEN ResAlreadyCompleted
    ELSE IF createdBy # userId THEN ResOnlyCreator
    ELSE NoRes
CompleteCheck(status, createdBy, userId) ==
    IF status = "none" THEN ResProjectNotFound
    ELSE IF createdBy # userId THEN ResOnlyCreator
    ELSE IF status = "completed" THEN ResAlreadyCompleted
    ELSE NoRes

\* project.findUnique include members, and the three tests; the member
\* list read here is the one the transaction is built from
completeProject_findProject(q) ==
    /\ At(q, "completeProject", "findProject")
    /\ LET answer == CompleteCheck(projectStatus[q.projectId],
                                   projectCreatedBy[q.projectId], q.userId)
       IN IF answer # NoRes THEN Reply(q, answer)
          ELSE Continue(q, [q EXCEPT
                              !.members =
                                 {m.userId : m \in
                                     {x \in projectMember :
                                         x.projectId = q.projectId}},
                              !.pc = "transaction"])
    /\ UNCHANGED <<dbVars, served>>

\* prisma.$transaction([project.update, ...user.update decrement]): one
\* atomic write of the status and of the counts of the members read before
completeProject_transaction(q) ==
    /\ At(q, "completeProject", "transaction")
    /\ projectStatus' = [projectStatus EXCEPT ![q.projectId] = "completed"]
    /\ activeProjectCount' = [u \in Users |->
                                IF u \in q.members
                                THEN activeProjectCount[u] - 1
                                ELSE activeProjectCount[u]]
    /\ Reply(q, ResCompleted)
    /\ UNCHANGED <<projectCreatedBy, projectMember, served>>

\* the transaction is rejected by the store: it rolls back as a whole,
\* the catch block logs and answers 500
completeProject_rollback(q) ==
    /\ At(q, "completeProject", "transaction")
    /\ Reply(q, ResInternal)
    /\ UNCHANGED <<dbVars, served>>

(* ---------------------------- specification ---------------------------- *)
Next ==
    \/ \E u \in Users, ok \in BOOLEAN : createProject(u, ok)
    \/ \E q \in InFlight : createProject_findUser(q)
    \/ \E q \in InFlight : createProject_create(q)
    \/ \E q \in InFlight : createProject_createMember(q)
    \/ \E q \in InFlight : createProject_increment(q)
    \/ \E u \in Users, p \in BodyProjectIds : joinProject(u, p)
    \/ \E q \in InFlight : joinProject_findUser(q)
    \/ \E q \in InFlight : joinProject_findProject(q)
    \/ \E q \in InFlight : joinProject_findMember(q)
    \/ \E q \in InFlight : joinProject_createMember(q)
    \/ \E q \in InFlight : joinProject_increment(q)
    \/ \E u \in Users, p \in BodyProjectIds : leaveProject(u, p)
    \/ \E q \in InFlight : leaveProject_findMember(q)
    \/ \E q \in InFlight : leaveProject_findProject(q)
    \/ \E q \in InFlight : leaveProject_deleteMember(q)
    \/ \E q \in InFlight : leaveProject_decrement(q)
    \/ \E u \in Users, p \in BodyProjectIds : completeProject(u, p)
    \/ \E q \in InFlight : completeProject_findProject(q)
    \/ \E q \in InFlight : completeProject_transaction(q)
    \/ \E q \in InFlight : completeProject_rollback(q)

Spec == Init /\ [][Next]_vars

(* ------------------- reputation: services/reputation.service.js --------- *)
\* the projects named by the calls
RatedProjects == {1, 2}

\* a JavaScript number is kept in tenths, so that 45 is the number 4.5
Num(k) == 10 * k

ErrValidation == "Rating must be an integer between 1 and 5"
ErrAlreadyRated == "You have already rated this teammate for this project"

\* rating < 1 || rating > 5 || !Number.isInteger(rating)
InvalidRatingRangeOnly(x) == x < Num(1) \/ x > Num(5)
InvalidRating(x) == x < Num(1) \/ x > Num(5) \/ x % 10 # 0

\* `${rating}` of an integer from 1 to 5
RatingText(x) == <<"1", "2", "3", "4", "5">>[x \div 10]

\* `Rating from user ${raterId}` and `Rating from user ${raterId}: ${rating}/5`
ReasonPrefix(r) == <<"Rating from user ">> \o r

\* String.prototype.startsWith, as the store applies it to the reason column
StartsWith(text, prefix) ==
    /\ Len(prefix) <= Len(text)
    /\ SubSeq(text, 1, Len(prefix)) = prefix

\* reputationLog.findFirst({ userId, projectId, reason: { startsWith } })
ExistingRatingByRater(r, u, p) ==
    \E i \in 1..Len(reputationLog) :
        /\ reputationLog[i].userId = r
        /\ reputationLog[i].projectId = p
        /\ StartsWith(reputationLog[i].reason, ReasonPrefix(r))
ExistingRating(r, u, p) ==
    \E i \in 1..Len(reputationLog) :
        /\ reputationLog[i].userId = u
        /\ reputationLog[i].projectId = p
        /\ StartsWith(reputationLog[i].reason, ReasonPrefix(r))

\* the adjustment of a rating
AdjustmentShifted(x) ==
    IF x <= Num(2) THEN -15
    ELSE IF x <= Num(3) THEN -5
    ELSE IF x <= Num(4) THEN 5
    ELSE 10
Adjustment(x) ==
    IF x < Num(2) THEN -15
    ELSE IF x <= Num(3) THEN -5
    ELSE IF x <= Num(4) THEN 5
    ELSE 10

\* updatedUser.reputationScore < 0
BelowFloorByTen(score) == score < -10
BelowFloor(score) == score < 0

Max0(n) == IF n > 0 THEN n ELSE 0

\* a rateTeammate call suspended at the await of the query named by `at`
RateCall(r, u, p, x, at) ==
    [pc |-> at, raterId |-> r, ratedUserId |-> u, projectId |-> p,
     rating |-> x, adjustment |-> 0, updated |-> 0]

RatesInFlight == BagToSet(rateReq)
RateAt(q, at) == q \in RatesInFlight /\ q.pc = at

RateContinue(q, next) ==
    /\ rateReq' = (rateReq (-) SetToBag({q})) (+) SetToBag({next})
    /\ UNCHANGED lastRate

RateSettle(q, how, text, adj, rep) ==
    /\ rateReq' = rateReq (-) SetToBag({q})
    /\ lastRate' = Settled(q.raterId, q.ratedUserId, q.projectId, q.rating,
                           how, text, adj, rep)

\* rateTeammate is called: the validation runs before the first await
rateTeammate(r, u, p, x) ==
    /\ rated < MaxRatings
    /\ BagCardinality(rateReq) < MaxRateInFlight
    /\ rated' = rated + 1
    /\ IF InvalidRating(x)
       THEN /\ lastRate' = Settled(r, u, p, x, "rejected", ErrValidation, 0, 0)
            /\ UNCHANGED rateReq
       ELSE /\ rateReq' = rateReq (+) SetToBag({RateCall(r, u, p, x, "findFirst")})
            /\ UNCHANGED lastRate
    /\ UNCHANGED <<reputationScore, reputationLog, reputationBase, projectVars,
                   rankingVars, scoringVars, hubVars>>

\* reputationLog.findFirst, the duplicate test and the adjustment
rateTeammate_findFirst(q) ==
    /\ RateAt(q, "findFirst")
    /\ IF ExistingRating(q.raterId, q.ratedUserId, q.projectId)
       THEN RateSettle(q, "rejected", ErrAlreadyRated, 0, 0)
       ELSE RateContinue(q, [q EXCEPT !.pc = "increment",
                                      !.adjustment = Adjustment(q.rating)])
    /\ UNCHANGED <<reputationScore, reputationLog, reputationBase, rated,
                   projectVars, rankingVars, scoringVars, hubVars>>

\* user.update increment, selecting the new reputationScore
rateTeammate_increment(q) ==
    /\ RateAt(q, "increment")
    /\ LET updated == reputationScore[q.ratedUserId] + q.adjustment
       IN /\ reputationScore' =
                 [reputationScore EXCEPT ![q.ratedUserId] = updated]
          /\ RateContinue(q, [q EXCEPT
                 !.pc = IF BelowFloor(updated) THEN "clamp" ELSE "createLog",
                 !.updated = updated])
    /\ UNCHANGED <<reputationLog, reputationBase, rated, projectVars,
                   rankingVars, scoringVars, hubVars>>

\* user.update reputationScore: 0
rateTeammate_clamp(q) ==
    /\ RateAt(q, "clamp")
    /\ reputationScore' = [reputationScore EXCEPT ![q.ratedUserId] = 0]
    /\ RateContinue(q, [q EXCEPT !.pc = "createLog"])
    /\ UNCHANGED <<reputationLog, reputationBase, rated, projectVars,
                   rankingVars, scoringVars, hubVars>>

\* reputationLog.create, then the value the promise is resolved with
rateTeammate_createLog(q) ==
    /\ RateAt(q, "createLog")
    /\ reputationLog' = Append(reputationLog,
           [userId |-> q.ratedUserId, projectId |-> q.projectId,
            change |-> q.adjustment, reason |-> ReasonPrefix(q.raterId)
                          \o <<": ", RatingText(q.rating), "/5">>])
    /\ RateSettle(q, "resolved", "Rating recorded successfully",
               q.adjustment,
                  Max0(q.updated + q.adjustment))
    /\ UNCHANGED <<reputationScore, reputationBase, rated, projectVars,
                   rankingVars, scoringVars, hubVars>>

\* the users have been rated before, on projects that no call of the run
\* names: those log rows match no lookup of the run and are left out of
\* the log, and the scores they left (six ratings of 1 take a new account
\* from 100 to 10) are the scores the run starts with
ReputationInit ==
    /\ ProjectInit
    /\ RankingNew
    /\ ScoringNew
    /\ HubNew
    /\ \E earlier \in {10} :
          reputationScore = [u \in UserIds |-> earlier]
    /\ reputationBase = reputationScore
    /\ reputationLog = <<>>
    /\ rateReq = EmptyBag
    /\ lastRate = NoRate
    /\ rated = 0

ReputationNext ==
    \/ \E r \in UserIds, u \in UserIds, p \in RatedProjects,
          x \in {Num(k) : k \in 0..6} \cup {Num(4) + 5} :
          rateTeammate(r, u, p, x)
    \/ \E q \in RatesInFlight : rateTeammate_findFirst(q)
    \/ \E q \in RatesInFlight : rateTeammate_increment(q)
    \/ \E q \in RatesInFlight : rateTeammate_clamp(q)
    \/ \E q \in RatesInFlight : rateTeammate_createLog(q)

ReputationSpec == ReputationInit /\ [][ReputationNext]_vars

\* the calls do not overlap: a call is made only when none is in flight
ReputationSeqNext ==
    ReputationNext /\ (rated' # rated => rateReq = EmptyBag)
ReputationSeqSpec == ReputationInit /\ [][ReputationSeqNext]_vars

(* ------------------- ranking: getRecommendedUsers ----------------------- *)
RankUsers == 1..NumRankUsers
\* an id that names no user row until a user registers
UnknownUser == NumRankUsers + 1

\* the users whose rows differ from run to run; the other rows are alike
VariedUsers == {1, 2}
\* who asks: a varied user, one of the others, an id without a row
Requesters == {1, 3, UnknownUser}

Profile(available, reputation, count, skillIds, domainIds) ==
    [isAvailable |-> available, reputationScore |-> reputation,
     activeProjectCount |-> count, skills |-> skillIds, domains |-> domainIds]

VariedProfiles ==
    { Profile(TRUE, 100, 0, 1..40, {1}),
      Profile(TRUE, 70, 2, {1}, {}),
      Profile(FALSE, 100, 0, {1, 2}, {1}),
      Profile(TRUE, 10, 0, {1}, {1}),
      Profile(TRUE, 120, 3, 1..23, {2}) }

UserRow(id, profile, year) ==
    [id |-> id, year |-> year,
     isAvailable |-> profile.isAvailable,
     reputationScore |-> profile.reputationScore,
     activeProjectCount |-> profile.activeProjectCount,
     skills |-> profile.skills, domains |-> profile.domains]

\* the quotient n / d cut off instead of rounded
RoundDown(n, d) == n \div d

\* Math.round((intersection / union) * 100) for n = intersection * 100 and
\* d = union > 0, in the arithmetic of doubles: the quotient is rounded to
\* a double, and so is its product with 100; Math.round takes the nearest
\* integer and the upper one of two equally near. The product is the exact
\* percentage or a double next to it, so that the result is the exact
\* percentage rounded half up except where the percentage ends in .5 and
\* the product is a double below it: of the percentages k + 0.5 these are
\* 14.5, 28.5, 56.5 and 57.5 (as two hundredths: 29, 57, 113, 115), which
\* give k (23 common ids of 40 give 57); 2 * n / d is the percentage in
\* halves
Round(n, d) ==
    IF (2 * n) % d = 0 /\ (2 * n) \div d \in {29, 57, 113, 115}
       THEN n \div d
       ELSE (2 * n + d) \div (2 * d)

calculateSkillMatchPercent(mySkillIds, candidateSkillIds) ==
    LET intersection == Cardinality({id \in mySkillIds :
                                        id \in candidateSkillIds})
        union == Cardinality(mySkillIds) + Cardinality(candidateSkillIds)
                    - intersection
    IN IF union > 0 THEN Round(intersection * 100, union) ELSE 0

calculateDomainMatchPercent(myDomainIds, candidateDomainIds) ==
    LET intersection == Cardinality({id \in myDomainIds :
                                        id \in candidateDomainIds})
        union == Cardinality(myDomainIds) + Cardinality(candidateDomainIds)
                    - intersection
    IN IF union > 0 THEN Round(intersection * 100, union) ELSE 0

\* the score without its floor of zero
UnclampedRecentActivityScore(count) == 100 - count * 40

calculateRecentActivityScore(count) == Max0(100 - count * 40)

\* Math.round(rankingScore * 10) / 10, in tenths: ten times the weighted sum
\* 0.5 * reputation + 0.3 * skill match + 0.2 * recent activity of three
\* integers is the integer 5 * reputation + 3 * skill match + 2 * activity
RankingScore(candidate, skillMatchPercent, recentActivityScore) ==
    5 * candidate.reputationScore + 3 * skillMatchPercent
        + 2 * recentActivityScore

\* the record of a candidate whose score counts the domain match as well
ScoredByDomain(candidate, mySkillIds, myDomainIds) ==
    LET skillMatchPercent ==
            calculateSkillMatchPercent(mySkillIds, candidate.skills)
        domainMatchPercent ==
            calculateDomainMatchPercent(myDomainIds, candidate.domains)
        recentActivityScore ==
            calculateRecentActivityScore(candidate.activeProjectCount)
    IN [id |-> candidate.id, year |-> candidate.year,
        reputationScore |-> candidate.reputationScore,
        isAvailable |-> candidate.isAvailable,
        activeProjectCount |-> candidate.activeProjectCount,
        skillMatchPercent |-> skillMatchPercent,
        domainMatchPercent |-> domainMatchPercent,
        recentActivityScore |-> recentActivityScore,
        rankingScore |->
            RankingScore(candidate, skillMatchPercent, recentActivityScore)
                + domainMatchPercent]

\* the record built for a candidate
Scored(candidate, mySkillIds, myDomainIds) ==
    LET skillMatchPercent ==
            calculateSkillMatchPercent(mySkillIds, candidate.skills)
        recentActivityScore ==
            calculateRecentActivityScore(candidate.activeProjectCount)
    IN [id |-> candidate.id, year |-> candidate.year,
        reputationScore |-> candidate.reputationScore,
        isAvailable |-> candidate.isAvailable,
        activeProjectCount |-> candidate.activeProjectCount,
        skillMatchPercent |-> skillMatchPercent,
        domainMatchPercent |->
            calculateDomainMatchPercent(myDomainIds, candidate.domains),
        recentActivityScore |-> recentActivityScore,
        rankingScore |->
            RankingScore(candidate, skillMatchPercent, recentActivityScore)]

\* a stable sort of records, descending in the given field: Array.sort with
\* (a, b) => b.field - a.field, and the store's orderBy desc
InsertDesc(sorted, row, field) ==
    LET k == Cardinality({i \in 1..Len(sorted) :
                             sorted[i][field] >= row[field]})
    IN SubSeq(sorted, 1, k) \o <<row>> \o SubSeq(sorted, k + 1, Len(sorted))
RECURSIVE SortDesc(_, _)
SortDesc(rows, field) ==
    IF rows = <<>>
    THEN <<>>
    ELSE InsertDesc(SortDesc(SubSeq(rows, 1, Len(rows) - 1), field),
                    rows[Len(rows)], field)

\* take / slice(0, n)
Take(rows, n) == SubSeq(rows, 1, IF Len(rows) < n THEN Len(rows) ELSE n)

\* the where clause of findMany
EligibleWithRequester(row, currentUserId) ==
    /\ row.isAvailable = TRUE
    /\ row.reputationScore >= ReputationThreshold
Eligible(row, currentUserId) ==
    /\ row.id # currentUserId
    /\ row.isAvailable = TRUE
    /\ row.reputationScore >= ReputationThreshold

\* the rows of a table that pass the where clause, in the order in which
\* the store goes through the table
RECURSIVE Where(_, _, _)
Where(table, order, currentUserId) ==
    IF order = <<>>
    THEN <<>>
    ELSE LET row == table[order[1]]
             rest == Where(table, SubSeq(order, 2, Len(order)), currentUserId)
         IN IF Eligible(row, currentUserId) THEN <<row>> \o rest ELSE rest

\* user.findMany({ where, take: 100, orderBy: { reputationScore: 'desc' } })
Candidates(table, order, currentUserId) ==
    Take(SortDesc(Where(table, order, currentUserId), "reputationScore"),
         PoolLimit)

\* map, sort, slice(0, 20)
Ranked(table, order, currentUserId, mySkillIds, myDomainIds) ==
    LET candidates == Candidates(table, order, currentUserId)
        scoredCandidates ==
            [i \in 1..Len(candidates) |->
                Scored(candidates[i], mySkillIds, myDomainIds)]
    IN Take(SortDesc(scoredCandidates, "rankingScore"), TopN)

\* getRecommendedUsers is called and awaits user.findUnique
getRecommendedUsers(currentUserId) ==
    /\ Cardinality(recReq) < MaxRecommendInFlight
    /\ IF currentUserId \in DOMAIN users
       THEN /\ recReq' = recReq \cup
                   {[currentUserId |-> currentUserId,
                     mySkillIds |-> users[currentUserId].skills,
                     myDomainIds |-> users[currentUserId].domains]}
            /\ UNCHANGED recommended
       ELSE /\ recommended' = [for |-> currentUserId, outcome |-> "rejected",
                               list |-> <<>>, read |-> NoRead]
            /\ UNCHANGED recReq
    /\ UNCHANGED <<users, scan, ctlReq, ctlRes, edits, floorReq, projectVars,
                 reputationVars, scoringVars, hubVars>>

\* user.findMany, then the scoring, the sort and the slice
getRecommendedUsers_findMany(q) ==
    /\ q \in recReq
    /\ recReq' = recReq \ {q}
    /\ recommended' = [for |-> q.currentUserId, outcome |-> "resolved",
                       list |-> Ranked(users, scan, q.currentUserId,
                                       q.mySkillIds, q.myDomainIds),
                       read |-> [mySkillIds |-> q.mySkillIds,
                                 myDomainIds |-> q.myDomainIds,
                                 table |-> users, order |-> scan]]
    /\ UNCHANGED <<users, scan, ctlReq, ctlRes, edits, floorReq, projectVars,
                 reputationVars, scoringVars, hubVars>>

\* a write to the row of a user: the rows are written by callers other
\* than the recommendation while it runs
Edit(userId, row) ==
    /\ edits < MaxEdits
    /\ edits' = edits + 1
    /\ users' = [users EXCEPT ![userId] = row]
    /\ UNCHANGED <<scan, recReq, recommended, ctlReq, ctlRes, floorReq,
                 projectVars,
                 reputationVars, scoringVars, hubVars>>

\* the bodies of PUT /profile: year, isAvailable or both (name and
\* department are copied to the list and read by nothing else; year stands
\* for the three)
ProfileBodies ==
    {[year |-> y] : y \in {1, 2}}
        \cup {[isAvailable |-> a] : a \in BOOLEAN}
        \cup {[year |-> y, isAvailable |-> a] : y \in {1, 2}, a \in BOOLEAN}

\* PUT /profile: one user.update with the fields the body has
updateProfile(userId, body) ==
    LET year == IF "year" \in DOMAIN body
                THEN body.year ELSE users[userId].year
        isAvailable == IF "isAvailable" \in DOMAIN body
                       THEN body.isAvailable ELSE users[userId].isAvailable
    IN Edit(userId, [users[userId] EXCEPT !.year = year,
                                          !.isAvailable = isAvailable])

\* POST /profile/skills: the userSkill.upsert adds the skill to the user's
\* set, or leaves the set as it is (the lookup and the creation of the skill
\* before it write no user row)
addSkill(userId, skillId) ==
    Edit(userId, [users[userId] EXCEPT !.skills = @ \cup {skillId}])

\* DELETE /profile/skills/:skillId: userSkill.delete; without such a row the
\* store throws P2025 and the answer is 404
removeSkill(userId, skillId) ==
    /\ skillId \in users[userId].skills
    /\ Edit(userId, [users[userId] EXCEPT !.skills = @ \ {skillId}])

\* POST /profile/domains: the userDomain.upsert
addDomainInterest(userId, domainId) ==
    Edit(userId, [users[userId] EXCEPT !.domains = @ \cup {domainId}])

\* DELETE /profile/domains/:domainId: userDomain.delete, 404 without a row
removeDomainInterest(userId, domainId) ==
    /\ domainId \in users[userId].domains
    /\ Edit(userId, [users[userId] EXCEPT !.domains = @ \ {domainId}])

\* the first user.update of rateTeammate: reputationScore is incremented
\* by the adjustment of the rating; when the score it returns is below 0
\* the call goes on to its second user.update
rateTeammate_user(userId, x) ==
    LET updated == users[userId].reputationScore + Adjustment(x)
    IN /\ edits < MaxEdits
       /\ edits' = edits + 1
       /\ users' = [users EXCEPT ![userId].reputationScore = updated]
       /\ floorReq' = IF BelowFloor(updated)
                         THEN [floorReq EXCEPT ![userId] = @ + 1]
                         ELSE floorReq
       /\ UNCHANGED <<scan, recReq, recommended, ctlReq, ctlRes, projectVars,
                      reputationVars, scoringVars, hubVars>>

\* the second user.update of rateTeammate: reputationScore is set to 0,
\* whatever the row holds by then
rateTeammate_floor(userId) ==
    /\ floorReq[userId] > 0
    /\ floorReq' = [floorReq EXCEPT ![userId] = @ - 1]
    /\ users' = [users EXCEPT ![userId].reputationScore = 0]
    /\ UNCHANGED <<scan, recReq, recommended, ctlReq, ctlRes, edits,
                   projectVars, reputationVars, scoringVars, hubVars>>

\* the user.update of createProject and joinProject (increment) and of
\* leaveProject (decrement) on activeProjectCount
project_user(userId, by) ==
    Edit(userId, [users[userId] EXCEPT !.activeProjectCount = @ + by])

\* the transaction of completeProject: activeProjectCount of every member
\* of the project is decremented, all rows in one write
completeProject_users(members) ==
    /\ edits < MaxEdits
    /\ edits' = edits + 1
    /\ users' = [userId \in DOMAIN users |->
                    IF users[userId].id \in members
                       THEN [users[userId] EXCEPT !.activeProjectCount = @ - 1]
                       ELSE users[userId]]
    /\ UNCHANGED <<scan, recReq, recommended, ctlReq, ctlRes, floorReq,
                   projectVars, reputationVars, scoringVars, hubVars>>

\* POST /auth/register: user.create adds a row with the defaults of the
\* schema (reputationScore 100, activeProjectCount 0, isAvailable true) and
\* without skills or domains; the store puts it first or last in its order
register(year, first) ==
    /\ UnknownUser \notin DOMAIN users
    /\ edits < MaxEdits
    /\ edits' = edits + 1
    /\ users' = Append(users,
                       UserRow(UnknownUser,
                               Profile(TRUE, DefaultReputation, 0, {}, {}),
                               year))
    /\ scan' = IF first THEN <<UnknownUser>> \o scan
                        ELSE Append(scan, UnknownUser)
    /\ UNCHANGED <<recReq, recommended, ctlReq, ctlRes, floorReq, projectVars,
                 reputationVars, scoringVars, hubVars>>

\* the writes to the rows of the users whose rows vary
Edits ==
    \/ \E userId \in VariedUsers, body \in ProfileBodies :
          updateProfile(userId, body)
    \/ \E userId \in VariedUsers, skillId \in 1..3 : addSkill(userId, skillId)
    \/ \E userId \in VariedUsers, skillId \in 1..3 :
          removeSkill(userId, skillId)
    \/ \E userId \in VariedUsers, domainId \in 1..2 :
          addDomainInterest(userId, domainId)
    \/ \E userId \in VariedUsers, domainId \in 1..2 :
          removeDomainInterest(userId, domainId)
    \/ \E userId \in VariedUsers, x \in {Num(k) : k \in 1..5} :
          rateTeammate_user(userId, x)
    \/ \E userId \in VariedUsers : rateTeammate_floor(userId)
    \/ \E userId \in VariedUsers, by \in {1, -1} : project_user(userId, by)
    \/ \E members \in {{1}, {1, 2}, {1, 2, 3}, {3, 4}} :
          completeProject_users(members)
    \/ \E year \in {1, 2}, first \in BOOLEAN : register(year, first)

\* the store returns rows of equal reputationScore in an order of its own:
\* the order of the ids and its reverse are the two orders tried
RankingInit ==
    /\ ProjectInit
    /\ ReputationNew
    /\ \E varied \in [VariedUsers -> VariedProfiles],
          crowd \in {Profile(TRUE, 80, 0, {}, {1}),
                     Profile(TRUE, 100, 1, 1..23, {1})} :
          users = [id \in RankUsers |->
                      UserRow(id, IF id \in VariedUsers THEN varied[id]
                                                        ELSE crowd, 1)]
    /\ scan \in {[i \in RankUsers |-> i],
                 [i \in RankUsers |-> NumRankUsers + 1 - i]}
    /\ recReq = {}
    /\ recommended = NoList
    /\ ctlReq = {}
    /\ ctlRes = NoResponse
    /\ edits = 0
    /\ floorReq = [userId \in VariedUsers |-> 0]
    /\ ScoringNew
    /\ HubNew

RankingNext ==
    \/ \E currentUserId \in Requesters : getRecommendedUsers(currentUserId)
    \/ \E q \in recReq : getRecommendedUsers_findMany(q)
    \/ Edits

RankingSpec == RankingInit /\ [][RankingNext]_vars

(* ------------- ranking: the handler of GET /users/recommended ---------- *)
\* the record of a candidate whose activity score has no floor of zero
ScoredUserUnfloored(user, mySkillIds, myDomainIds) ==
    LET skillMatchPercent ==
            calculateSkillMatchPercent(mySkillIds, user.skills)
        recentActivityScore == 100 - user.activeProjectCount * 40
    IN [id |-> user.id, year |-> user.year,
        reputationScore |-> user.reputationScore,
        isAvailable |-> user.isAvailable,
        activeProjectCount |-> user.activeProjectCount,
        skillMatchPercent |-> skillMatchPercent,
        domainMatchPercent |->
            calculateDomainMatchPercent(myDomainIds, user.domains),
        recentActivityScore |-> recentActivityScore,
        rankingScore |-> 5 * user.reputationScore + 3 * skillMatchPercent
                            + 2 * recentActivityScore]

\* the record the handler builds for a candidate: the two overlaps, the
\* activity score and the weighted sum are computed in place
ScoredUser(user, mySkillIds, myDomainIds) ==
    LET intersectionSkills ==
            Cardinality({id \in mySkillIds : id \in user.skills})
        unionSkills == Cardinality(mySkillIds) + Cardinality(user.skills)
                          - intersectionSkills
        skillMatchPercent ==
            IF unionSkills > 0
            THEN Round(intersectionSkills * 100, unionSkills) ELSE 0
        intersectionDomains ==
            Cardinality({id \in myDomainIds : id \in user.domains})
        unionDomains == Cardinality(myDomainIds) + Cardinality(user.domains)
                           - intersectionDomains
        domainMatchPercent ==
            IF unionDomains > 0
            THEN Round(intersectionDomains * 100, unionDomains) ELSE 0
        recentActivityScore == Max0(100 - user.activeProjectCount * 40)
    IN [id |-> user.id, year |-> user.year,
        reputationScore |-> user.reputationScore,
        isAvailable |-> user.isAvailable,
        activeProjectCount |-> user.activeProjectCount,
        skillMatchPercent |-> skillMatchPercent,
        domainMatchPercent |-> domainMatchPercent,
        recentActivityScore |-> recentActivityScore,
        rankingScore |-> 5 * user.reputationScore + 3 * skillMatchPercent
                            + 2 * recentActivityScore]

\* map, sort, slice(0, 20), then the map that adds skillsPreview: the
\* scored record has no skills, so the preview is the empty array
ControllerRecommended(candidates, mySkillIds, myDomainIds) ==
    LET scoredUsers ==
            [i \in 1..Len(candidates) |->
                ScoredUser(candidates[i], mySkillIds, myDomainIds)]
        top == Take(SortDesc(scoredUsers, "rankingScore"), TopN)
    IN [i \in 1..Len(top) |->
           [id |-> top[i].id, year |-> top[i].year,
            reputationScore |-> top[i].reputationScore,
            isAvailable |-> top[i].isAvailable,
            activeProjectCount |-> top[i].activeProjectCount,
            skillMatchPercent |-> top[i].skillMatchPercent,
            domainMatchPercent |-> top[i].domainMatchPercent,
            recentActivityScore |-> top[i].recentActivityScore,
            rankingScore |-> top[i].rankingScore,
            skillsPreview |-> <<>>]]

\* the handler is called and awaits user.findUnique; without a row
\* currentUser is null, currentUser.skills throws and the catch answers 500
controller_getRecommendedUsers(userId) ==
    /\ Cardinality(ctlReq) < MaxRecommendInFlight
    /\ IF userId \in DOMAIN users
       THEN /\ ctlReq' = ctlReq \cup
                   {[userId |-> userId,
                     mySkillIds |-> users[userId].skills,
                     myDomainIds |-> users[userId].domains]}
            /\ UNCHANGED ctlRes
       ELSE /\ ctlRes' = [NoResponse EXCEPT !.for = userId, !.status = 500]
            /\ UNCHANGED ctlReq
    /\ UNCHANGED <<users, scan, recReq, recommended, edits, floorReq,
                 projectVars,
                 reputationVars, scoringVars, hubVars>>

\* user.findMany, then the scoring, the sort, the slice and res.json
controller_getRecommendedUsers_findMany(q) ==
    /\ q \in ctlReq
    /\ ctlReq' = ctlReq \ {q}
    /\ LET candidates == Candidates(users, scan, q.userId)
       IN ctlRes' = [for |-> q.userId, status |-> 200,
                     recommended |->
                         ControllerRecommended(candidates, q.mySkillIds,
                                               q.myDomainIds),
                     totalCandidates |-> Len(candidates),
                     yourSkillCount |-> Cardinality(q.mySkillIds),
                     yourDomainCount |-> Cardinality(q.myDomainIds),
                     read |-> [mySkillIds |-> q.mySkillIds,
                               myDomainIds |-> q.myDomainIds,
                               table |-> users, order |-> scan]]
    /\ UNCHANGED <<users, scan, recReq, recommended, edits, floorReq,
                 projectVars,
                 reputationVars, scoringVars, hubVars>>

\* the handler over a store that is written while it runs
ControllerNext ==
    \/ \E userId \in Requesters : controller_getRecommendedUsers(userId)
    \/ \E q \in ctlReq : controller_getRecommendedUsers_findMany(q)
    \/ Edits

ControllerSpec == RankingInit /\ [][ControllerNext]_vars

(* ------------------- the scoring functions on their own ---------------- *)
\* calculateSkillMatchPercent and calculateRecentActivityScore are called
\* with arguments of every shape: two sets of skill ids (every pair of sets
\* of a few ids, and every run of ids 1..n against every run lo..hi, so that
\* every quotient of an intersection by a union of up to MaxSkillIds ids
\* occurs), and a count (a count below zero is what leaveProject leaves
\* behind after a decrement of zero)
ScoringInit ==
    /\ ProjectInit
    /\ ReputationNew
    /\ RankingNew
    /\ HubNew
    /\ \/ calcArgs \in [fn : {"calculateSkillMatchPercent"},
                         mySkillIds :
                            SUBSET (1..MaxMixedSkillIds)
                               \cup {1..n : n \in 0..MaxSkillIds},
                         candidateSkillIds :
                            SUBSET (1..MaxMixedSkillIds)
                               \cup {lo..hi : lo \in 1..MaxSkillIds,
                                              hi \in 1..MaxSkillIds},
                         count : {0}]
       \/ calcArgs \in [fn : {"calculateRecentActivityScore"},
                         mySkillIds : {{}},
                         candidateSkillIds : {{}},
                         count : -1..MaxActiveCount]
    /\ calcResult = NotCalled

callSkillMatchPercent ==
    /\ calcArgs.fn = "calculateSkillMatchPercent"
    /\ calcResult = NotCalled
    /\ calcResult' = calculateSkillMatchPercent(calcArgs.mySkillIds,
                                                calcArgs.candidateSkillIds)
    /\ UNCHANGED <<calcArgs, projectVars, reputationVars, rankingVars, hubVars>>

callRecentActivityScore ==
    /\ calcArgs.fn = "calculateRecentActivityScore"
    /\ calcResult = NotCalled
    /\ calcResult' = calculateRecentActivityScore(calcArgs.count)
    /\ UNCHANGED <<calcArgs, projectVars, reputationVars, rankingVars, hubVars>>

ScoringNext == callSkillMatchPercent \/ callRecentActivityScore

ScoringSpec == ScoringInit /\ [][ScoringNext]_vars

(* ------------------- the presence and delivery hub --------------------- *)
\* what jwt.verify is given: a token that verifies and carries a userId, one
\* that verifies and carries none (userId 0), one that is invalid or expired
Tokens ==
    {[verifies |-> TRUE, userId |-> u] : u \in Users \cup {0}}
        \cup {[verifies |-> FALSE, userId |-> 1]}

\* data.content: strings as tuples of characters, and the value undefined
Undefined == <<"undefined">>

\* what a client sends with sendMessage: an object with a receiverId (0: it
\* has none) and a content, or no data at all
NoData == [nothing |-> TRUE]
SendData ==
    {[receiverId |-> r, content |-> t] :
        r \in Users \cup {0},
        t \in {<<"h">>, <<" ", "h", " ">>, <<" ">>, <<>>, Undefined}}
        \cup {NoData}

\* a trim that returns the string as it is
TrimNothing(content) == content

\* String.prototype.trim
Trim(content) ==
    LET inked == {i \in 1..Len(content) : content[i] # " "}
    IN IF inked = {} THEN <<>>
       ELSE SubSeq(content,
                   CHOOSE i \in inked : \A j \in inked : i <= j,
                   CHOOSE i \in inked : \A j \in inked : i >= j)

\* the connections an emit reaches: every connected socket (io.emit), the
\* connected sockets in the room user:<userId> (io.to); socket.emit reaches
\* the socket itself while it is connected
Everyone == {c \in 1..MaxConns : sockets[c].connected}
InRoom(userId) == {c \in Everyone : userId \in sockets[c].rooms}

\* a disconnect that deletes the Map entry and tells nobody
DisconnectedSilently(c, op) ==
    LET userId == sockets[c].userId
    IN /\ sockets' = [sockets EXCEPT ![c].connected = FALSE, ![c].rooms = {}]
       /\ onlineUsers' = IF userId # 0
                            THEN [onlineUsers EXCEPT ![userId] = 0]
                            ELSE onlineUsers
       /\ emitted' = [op |-> op, conn |-> c, events |-> <<>>]
       /\ UNCHANGED <<messages, notifications, sendReq, readReq, announced,
                      projectVars, reputationVars, rankingVars, scoringVars>>

\* the disconnect handler, and with it what closing the socket does: the
\* socket leaves its rooms; if socket.userId is set the Map entry of that
\* user is deleted and userOffline is emitted to every socket still connected
Disconnected(c, op) ==
    LET userId == sockets[c].userId
    IN /\ sockets' = [sockets EXCEPT ![c].connected = FALSE, ![c].rooms = {}]
       /\ onlineUsers' = IF userId # 0
                            THEN [onlineUsers EXCEPT ![userId] = 0]
                            ELSE onlineUsers
       /\ emitted' =
             [op |-> op, conn |-> c,
              events |-> IF userId # 0
                            THEN <<[NoEvent EXCEPT !.ev = "userOffline",
                                                   !.to = Everyone \ {c},
                                                   !.userId = userId]>>
                            ELSE <<>>]
       /\ UNCHANGED <<messages, notifications, sendReq, readReq, announced,
                      projectVars, reputationVars, rankingVars, scoringVars>>

\* a check of the token that takes the userId of a token that did not verify
VerifiedUnchecked(token) == token.userId # 0

\* jwt.verify returned and the decoded token has a userId
Verified(token) == token.verifies /\ token.userId # 0

\* socket.on('authenticate'): jwt.verify does not await, the handler runs
\* in one piece; socket.disconnect(true) runs the disconnect handler
authenticate(c, token) ==
    /\ sockets[c].connected
    /\ IF Verified(token)
          THEN /\ sockets' = [sockets EXCEPT
                                 ![c].userId = token.userId,
                                 ![c].rooms = @ \cup {token.userId}]
               /\ onlineUsers' = [onlineUsers EXCEPT ![token.userId] = c]
               /\ emitted' =
                     [op |-> "authenticate", conn |-> c,
                      events |-> <<[NoEvent EXCEPT !.ev = "userOnline",
                                                   !.to = Everyone,
                                                   !.userId = token.userId]>>]
               /\ announced' = announced \cup {token.userId}
               /\ UNCHANGED <<messages, notifications, sendReq, readReq,
                              projectVars, reputationVars, rankingVars,
                              scoringVars>>
          ELSE Disconnected(c, "authenticate")

\* socket.on('disconnect'): the client went away
disconnect(c) ==
    /\ sockets[c].connected
    /\ Disconnected(c, "disconnect")

\* socket.on('isOnline')
isOnline(c, targetUserId) ==
    /\ sockets[c].connected
    /\ emitted' = [op |-> "isOnline", conn |-> c,
                   events |-> <<[NoEvent EXCEPT
                                    !.ev = "onlineStatus", !.to = {c},
                                    !.userId = targetUserId,
                                    !.isOnline =
                                        onlineUsers[targetUserId] # 0]>>]
    /\ UNCHANGED <<sockets, onlineUsers, messages, notifications, sendReq,
                   readReq, announced, projectVars, reputationVars, rankingVars,
                   scoringVars>>

\* socket.on('sendMessage') up to its first await: the data is taken
\* apart, checked, and message.create is called. Taking apart data that is
\* undefined throws, and so does content.trim() of a content that is
\* undefined once the socket has a userId and a receiverId is given; both
\* throw before the try block: the promise of the async listener is
\* rejected, nothing handles the rejection and the server process ends, and
\* with it every connection, the Map and the handlers in flight; no
\* disconnect handler runs and nothing is emitted
sendMessage(c, data) ==
    /\ sockets[c].connected
    /\ LET senderId == sockets[c].userId
           receiverId == IF data = NoData THEN 0 ELSE data.receiverId
           content == IF data = NoData THEN Undefined ELSE data.content
           throws == \/ data = NoData
                     \/ senderId # 0 /\ receiverId # 0 /\ content = Undefined
           invalid == senderId = 0 \/ receiverId = 0 \/ Trim(content) = <<>>
       IN IF throws
             THEN /\ sockets' = [k \in 1..MaxConns |->
                                    [sockets[k] EXCEPT !.connected = FALSE,
                                                       !.rooms = {}]]
                  /\ onlineUsers' = [u \in Users |-> 0]
                  /\ sendReq' = {}
                  /\ readReq' = {}
                  /\ emitted' = [op |-> "sendMessage", conn |-> c,
                                 events |-> <<>>]
             ELSE /\ IF invalid
                        THEN /\ emitted' =
                                   [op |-> "sendMessage", conn |-> c,
                                    events |->
                                       <<[NoEvent EXCEPT
                                            !.ev = "error", !.to = {c},
                                            !.message =
                                               "Invalid message data"]>>]
                             /\ UNCHANGED sendReq
                        ELSE /\ Len(messages) + Cardinality(sendReq)
                                   < MaxMessages
                             /\ Cardinality(sendReq) + Cardinality(readReq)
                                   < MaxHubInFlight
                             /\ Len(notifications) + Cardinality(sendReq)
                                   < MaxNotifications
                             /\ sendReq' = sendReq \cup
                                   {[conn |-> c, at |-> "message.create",
                                     row |-> [senderId |-> senderId,
                                              receiverId |-> receiverId,
                                              content |-> Trim(content),
                                              isRead |-> FALSE]]}
                             /\ emitted' = [op |-> "sendMessage", conn |-> c,
                                            events |-> <<>>]
                  /\ UNCHANGED <<sockets, onlineUsers, readReq>>
    /\ UNCHANGED <<messages, notifications, announced,
                   projectVars, reputationVars, rankingVars, scoringVars>>

\* message.create settles. Rejected: the catch emits error. Resolved: the
\* row is stored, newMessage goes to the room of the receiver if the Map has
\* an entry for the receiver, messageSent goes to the sender, and
\* createNotification calls notification.create
sendMessage_create(q, resolved) ==
    /\ q \in sendReq
    /\ q.at = "message.create"
    /\ IF resolved
          THEN /\ messages' = Append(messages, q.row)
               /\ sendReq' = (sendReq \ {q})
                                \cup {[q EXCEPT !.at = "notification.create"]}
               /\ emitted' =
                     [op |-> "sendMessage", conn |-> q.conn,
                      events |->
                         (IF onlineUsers[q.row.receiverId] # 0
                             THEN <<[NoEvent EXCEPT
                                       !.ev = "newMessage",
                                       !.to = InRoom(q.row.receiverId),
                                       !.row = q.row]>>
                             ELSE <<>>)
                         \o <<[NoEvent EXCEPT !.ev = "messageSent",
                                              !.to = {q.conn} \cap Everyone,
                                              !.row = q.row]>>]
          ELSE /\ messages' = messages
               /\ sendReq' = sendReq \ {q}
               /\ emitted' =
                     [op |-> "sendMessage", conn |-> q.conn,
                      events |-> <<[NoEvent EXCEPT
                                      !.ev = "error",
                                      !.to = {q.conn} \cap Everyone,
                                      !.message = "Failed to send message"]>>]
    /\ UNCHANGED <<sockets, onlineUsers, notifications, readReq, announced,
                   projectVars, reputationVars, rankingVars, scoringVars>>

\* notification.create settles inside createNotification. Resolved: the row
\* is stored and newNotification goes to the room of the receiver. Rejected:
\* createNotification logs and throws again, and the catch of sendMessage
\* emits error to the sender
sendMessage_createNotification(q, resolved) ==
    /\ q \in sendReq
    /\ q.at = "notification.create"
    /\ sendReq' = sendReq \ {q}
    /\ IF resolved
          THEN /\ notifications' =
                     Append(notifications, [userId |-> q.row.receiverId])
               /\ emitted' =
                     [op |-> "sendMessage", conn |-> q.conn,
                      events |-> <<[NoEvent EXCEPT
                                      !.ev = "newNotification",
                                      !.to = InRoom(q.row.receiverId),
                                      !.userId = q.row.receiverId]>>]
          ELSE /\ notifications' = notifications
               /\ emitted' =
                     [op |-> "sendMessage", conn |-> q.conn,
                      events |-> <<[NoEvent EXCEPT
                                      !.ev = "error",
                                      !.to = {q.conn} \cap Everyone,
                                      !.message = "Failed to send message"]>>]
    /\ UNCHANGED <<sockets, onlineUsers, messages, readReq, announced,
                   projectVars, reputationVars, rankingVars, scoringVars>>

\* createNotification of socket.js as other code calls it, with the io of
\* the server or without one: when notification.create resolves the row is
\* stored and, with an io, newNotification goes to the room of the user
\* (rejected, it throws to its caller and nothing is written). The
\* createNotification of notification.controller.js stores the row and has
\* no io (rejected, it returns null)
createNotification(userId, io) ==
    /\ Len(notifications) + Cardinality(sendReq) < MaxNotifications
    /\ notifications' = Append(notifications, [userId |-> userId])
    /\ emitted' = [op |-> "none", conn |-> 0,
                   events |-> IF io
                                 THEN <<[NoEvent EXCEPT
                                           !.ev = "newNotification",
                                           !.to = InRoom(userId),
                                           !.userId = userId]>>
                                 ELSE <<>>]
    /\ UNCHANGED <<sockets, onlineUsers, messages, sendReq, readReq, announced,
                   projectVars, reputationVars, rankingVars, scoringVars>>

\* DELETE /notifications/:id: notification.delete of the row with that id
\* and the userId of the caller; without such a row the answer is 404. No
\* handler of the socket has run: nothing is emitted
deleteNotification(userId, id) ==
    /\ id \in 1..Len(notifications)
    /\ notifications[id].userId = userId
    /\ notifications' = SubSeq(notifications, 1, id - 1)
                           \o SubSeq(notifications, id + 1, Len(notifications))
    /\ emitted' = [op |-> "none", conn |-> 0, events |-> <<>>]
    /\ UNCHANGED <<sockets, onlineUsers, messages, sendReq, readReq, announced,
                   projectVars, reputationVars, rankingVars, scoringVars>>

\* socket.on('markAsRead') up to its await: message.update is called
markAsRead(c, messageId) ==
    /\ sockets[c].connected
    /\ Cardinality(sendReq) + Cardinality(readReq) < MaxHubInFlight
    /\ readReq' = readReq \cup {[conn |-> c, messageId |-> messageId]}
    /\ emitted' = [op |-> "markAsRead", conn |-> c, events |-> <<>>]
    /\ UNCHANGED <<sockets, onlineUsers, messages, notifications, sendReq,
                   announced, projectVars, reputationVars, rankingVars,
                   scoringVars>>

\* message.update settles. Resolved, which takes a row of that id: isRead
\* is set, messageRead goes to the room of the sender if the Map has an entry
\* for the sender, readConfirmed goes to the socket. Rejected: the catch
\* emits error
markAsRead_update(q, resolved) ==
    /\ q \in readReq
    /\ resolved => q.messageId \in 1..Len(messages)
    /\ readReq' = readReq \ {q}
    /\ IF resolved
          THEN LET senderId == messages[q.messageId].senderId
               IN /\ messages' = [messages EXCEPT
                                     ![q.messageId].isRead = TRUE]
                  /\ emitted' =
                        [op |-> "markAsRead", conn |-> q.conn,
                         events |->
                            (IF onlineUsers[senderId] # 0
                                THEN <<[NoEvent EXCEPT
                                          !.ev = "messageRead",
                                          !.to = InRoom(senderId),
                                          !.messageId = q.messageId,
                                          !.userId = sockets[q.conn].userId]>>
                                ELSE <<>>)
                            \o <<[NoEvent EXCEPT
                                    !.ev = "readConfirmed",
                                    !.to = {q.conn} \cap Everyone,
                                    !.messageId = q.messageId]>>]
          ELSE /\ messages' = messages
               /\ emitted' =
                     [op |-> "markAsRead", conn |-> q.conn,
                      events |-> <<[NoEvent EXCEPT
                                      !.ev = "error",
                                      !.to = {q.conn} \cap Everyone,
                                      !.message =
                                         "Failed to update read status"]>>]
    /\ UNCHANGED <<sockets, onlineUsers, notifications, sendReq, announced,
                   projectVars, reputationVars, rankingVars, scoringVars>>

\* socket.on('typing') (isTyping true) and socket.on('stopTyping') (false):
\* userTyping goes to the room of the receiver if the socket has a userId,
\* a receiver is given and the Map has an entry for the receiver
typing(c, receiverId, isTyping) ==
    /\ sockets[c].connected
    /\ emitted' =
          [op |-> IF isTyping THEN "typing" ELSE "stopTyping", conn |-> c,
           events |-> IF /\ sockets[c].userId # 0
                         /\ receiverId # 0
                         /\ onlineUsers[receiverId] # 0
                         THEN <<[NoEvent EXCEPT
                                   !.ev = "userTyping",
                                   !.to = InRoom(receiverId),
                                   !.userId = sockets[c].userId,
                                   !.isTyping = isTyping]>>
                         ELSE <<>>]
    /\ UNCHANGED <<sockets, onlineUsers, messages, notifications, sendReq,
                   readReq, announced, projectVars, reputationVars, rankingVars,
                   scoringVars>>

HubNext ==
    \/ \E c \in 1..MaxConns, token \in Tokens : authenticate(c, token)
    \/ \E c \in 1..MaxConns : disconnect(c)
    \/ \E c \in 1..MaxConns, targetUserId \in Users : isOnline(c, targetUserId)
    \/ \E c \in 1..MaxConns, data \in SendData : sendMessage(c, data)
    \/ \E q \in sendReq, resolved \in BOOLEAN : sendMessage_create(q, resolved)
    \/ \E q \in sendReq, resolved \in BOOLEAN :
          sendMessage_createNotification(q, resolved)
    \/ \E c \in 1..MaxConns, messageId \in 1..MaxMessages + 1 :
          markAsRead(c, messageId)
    \/ \E q \in readReq, resolved \in BOOLEAN : markAsRead_update(q, resolved)
    \/ \E c \in 1..MaxConns, receiverId \in Users \cup {0},
          isTyping \in BOOLEAN : typing(c, receiverId, isTyping)
    \/ \E userId \in Users, io \in BOOLEAN : createNotification(userId, io)
    \/ \E userId \in Users, id \in 1..MaxNotifications :
          deleteNotification(userId, id)

HubSpec == Init /\ [][HubNext]_vars

(* ---------------------------- observations ----------------------------- *)
\* the memberships of u in projects whose status is active
ActiveMemberships(u) ==
    Cardinality({m \in projectMember :
                    m.userId = u /\ projectStatus[m.projectId] = "active"})

\* handler q takes this step
Steps(q) == CopiesIn(q, req') < CopiesIn(q, req)

\* this step ends handler q with the given response and writes nothing
Fails(q, response) ==
    /\ lastRes' = [op |-> q.op, res |-> response]
    /\ req' = req (-) SetToBag({q})
    /\ UNCHANGED dbVars

(* ---------------------------- claims ----------------------------------- *)

\* C1: at every quiescent point each user's activeProjectCount equals the
\* number of memberships the user holds in projects whose status is Active.
C1_CountEqualsActiveMemberships ==
    req = EmptyBag =>
        \A u \in Users : activeProjectCount[u] = ActiveMemberships(u)

\* C2: the cap check and the increment are one indivisible step, so no user
\* ever has an activeProjectCount above 2 or more than 2 memberships in
\* Active projects.
C2_CapNeverExceeded ==
    \A u \in Users : activeProjectCount[u] <= 2 /\ ActiveMemberships(u) <= 2

\* C3: completion is all-or-nothing: the step that turns a project from
\* Active to Completed takes exactly 1 off the count of every user who is a
\* member at that moment, and nothing off anyone else's.
C3_CompletionAllOrNothing ==
    [][\A p \in ProjectIds :
          projectStatus[p] = "active" /\ projectStatus'[p] = "completed"
          => \A u \in Users :
                activeProjectCount'[u] =
                    activeProjectCount[u] - (IF IsMember(p, u) THEN 1 ELSE 0)]_vars

\* C4: the three effects of createProject commit together: the step that
\* creates a project row also creates the creator's Leader membership and
\* adds 1 to the creator's activeProjectCount.
C4_CreateCommitsTogether ==
    [][\A p \in ProjectIds :
          projectStatus[p] = "none" /\ projectStatus'[p] # "none"
          => /\ Row(p, projectCreatedBy'[p], "leader") \in projectMember'
             /\ activeProjectCount'[projectCreatedBy'[p]] =
                    activeProjectCount[projectCreatedBy'[p]] + 1]_vars

\* C5: a createProject or joinProject whose cap test finds the user's
\* activeProjectCount at 2 (or more) is answered with the capacity error,
\* and creates no project, no membership and changes no count.
C5_CapRejects ==
    [][\A q \in InFlight :
          /\ q.op \in {"createProject", "joinProject"}
          /\ q.pc = "findUser"
          /\ Steps(q)
          /\ activeProjectCount[q.userId] >= 2
          => Fails(q, ResCap)]_vars

\* C5 witness: a request was answered with the capacity error while a user
\* is at the cap
C5_Witness ==
    /\ lastRes.res = ResCap
    /\ \E u \in Users : activeProjectCount[u] = 2

\* C6: every user's activeProjectCount is at least 0 in every reachable state.
C6_CountNeverNegative ==
    \A u \in Users : activeProjectCount[u] >= 0

\* C7: a project is created Active, its status changes at most once, from
\* Active to Completed, and a Completed project never becomes Active again.
C7_StatusOneWay ==
    [][\A p \in ProjectIds :
          /\ projectStatus[p] = "none" => projectStatus'[p] \in {"none", "active"}
          /\ projectStatus[p] = "active"
                => projectStatus'[p] \in {"active", "completed"}
          /\ projectStatus[p] = "completed" => projectStatus'[p] = "completed"]_vars

\* C7 witness: a project has been completed and another request was served
\* after the completion
C7_Witness ==
    /\ \E p \in ProjectIds : projectStatus[p] = "completed"
    /\ lastRes.res # ResCompleted

\* C8: completeProject answers NotFound (404) when the project does not
\* exist, Forbidden (403) when the requester is not the creator, Conflict
\* (400, already completed) when the creator completes a Completed project;
\* in each case no status and no count changes.
C8_CompleteFailures ==
    [][\A q \in InFlight :
          q.op = "completeProject" /\ q.pc = "findProject" /\ Steps(q)
          => /\ projectStatus[q.projectId] = "none"
                   => Fails(q, ResProjectNotFound)
             /\ projectStatus[q.projectId] # "none"
                /\ projectCreatedBy[q.projectId] # q.userId
                   => Fails(q, ResOnlyCreator)
             /\ projectStatus[q.projectId] = "completed"
                /\ projectCreatedBy[q.projectId] = q.userId
                   => Fails(q, ResAlreadyCompleted)]_vars

\* C8 witness: the creator's second completion was answered with the
\* already-completed error
C8_Witness ==
    /\ lastRes = [op |-> "completeProject", res |-> ResAlreadyCompleted]
    /\ \E p \in ProjectIds : projectStatus[p] = "completed"

\* C9: joinProject answers the capacity error when its cap test finds the
\* count at 2 or more, a not-found error when the project is absent, an
\* error of its own when the project is not Active, and the
\* already-a-member error when the membership exists; the four errors
\* differ (the answer to a join of a Completed project is not the answer
\* given to a join of an absent project), and each failure creates no
\* membership and changes no count.
C9_JoinErrorsDistinct ==
    [][\A q \in InFlight :
          q.op = "joinProject" /\ Steps(q)
          => /\ q.pc = "findUser" /\ activeProjectCount[q.userId] >= 2
                   => Fails(q, ResCap)
             /\ q.pc = "findProject" /\ projectStatus[q.projectId] # "active"
                   => Fails(q, lastRes'.res)
             /\ q.pc = "findProject" /\ projectStatus[q.projectId] = "completed"
                   => /\ lastRes'.res # JoinProjectCheck("none")
                      /\ lastRes'.res \notin {ResCap, ResAlreadyMember}
             /\ q.pc = "findMember" /\ IsMember(q.projectId, q.userId)
                   => Fails(q, ResAlreadyMember)
             /\ Cardinality({ResCap, JoinProjectCheck("none"),
                             ResAlreadyMember}) = 3]_vars

\* C10: leaveProject by a member deletes exactly that user's membership; it
\* takes 1 off that user's count if the project is still Active and nothing
\* if it is Completed; no other membership and no other count changes.
\* "Still Active" is the status at the time of the write.
C10_LeaveFrame ==
    [][\A q \in InFlight :
          q.op = "leaveProject" /\ Steps(q)
          => /\ q.pc \in {"findMember", "findProject"} => UNCHANGED dbVars
             /\ q.pc = "deleteMember"
                   => /\ projectMember' =
                            projectMember \ {m \in projectMember :
                                                m.projectId = q.projectId
                                                /\ m.userId = q.userId}
                      /\ Cardinality(projectMember') = Cardinality(projectMember) - 1
                      /\ UNCHANGED <<projectStatus, projectCreatedBy,
                                     activeProjectCount>>
                      /\ projectStatus[q.projectId] # "active"
                            => lastRes' = [op |-> "leaveProject", res |-> ResLeft]
                      /\ projectStatus[q.projectId] = "active"
                            => /\ req' = (req (-) SetToBag({q})) (+)
                                            SetToBag({[q EXCEPT !.pc = "decrementCount"]})
                               /\ UNCHANGED lastRes
             /\ q.pc = "decrementCount"
                   => /\ projectStatus[q.projectId] = "active"
                      /\ activeProjectCount' =
                            [activeProjectCount EXCEPT ![q.userId] = @ - 1]
                      /\ UNCHANGED <<projectStatus, projectCreatedBy, projectMember>>
                      /\ lastRes' = [op |-> "leaveProject", res |-> ResLeft]]_vars

\* C11: every reachable state holds at most one membership row for a pair
\* (projectId, userId), also when two joinProject requests of one user for
\* one project overlap; the request whose insert is refused answers 500 and
\* ends without changing any count
C11_OneMembershipPerPair ==
    [][ /\ \A m1 \in projectMember' : \A m2 \in projectMember' :
              (m1.projectId = m2.projectId /\ m1.userId = m2.userId)
              => m1 = m2
        /\ \A q \in InFlight :
              (/\ q.op = "joinProject"
               /\ q.pc = "createMember"
               /\ Steps(q)
               /\ \E m \in projectMember :
                      m.projectId = q.projectId /\ m.userId = q.userId)
              => Fails(q, ResInternal) ]_vars

\* two joins of one user for one project overlapped: the second insert was
\* refused, the pair has its row and the user's count went up once
C11_Witness ==
    /\ lastRes = [op |-> "joinProject", res |-> ResInternal]
    /\ req = EmptyBag
    /\ \E m \in projectMember :
          /\ m.role = "member"
          /\ activeProjectCount[m.userId] = 1


(* ---------------------- observations on the ratings -------------------- *)
\* the rater and the rating a log row was written for, read back from the
\* reason text
RaterOf(row) == SubSeq(row.reason, 2, Len(row.reason) - 3)
RatingOf(row) ==
    CHOOSE k \in 1..5 : RatingText(Num(k)) = row.reason[Len(row.reason) - 1]

\* the rows of the log written for the triple (rater, rated user, project)
RowsOf(r, u, p) ==
    {i \in 1..Len(reputationLog) :
        /\ reputationLog[i].userId = u
        /\ reputationLog[i].projectId = p
        /\ RaterOf(reputationLog[i]) = r}
Rated(r, u, p) == RowsOf(r, u, p) # {}

\* the call q takes a step
RateSteps(q) == CopiesIn(q, rateReq') < CopiesIn(q, rateReq)

\* the call q ends rejected with the given message and writes nothing
RateFails(q, text) ==
    /\ lastRate' = Settled(q.raterId, q.ratedUserId, q.projectId, q.rating,
                           "rejected", text, 0, 0)
    /\ rateReq' = rateReq (-) SetToBag({q})
    /\ UNCHANGED <<reputationScore, reputationLog>>

\* C12: once the log holds the row of a rating of u by r on p, every call
\* rateTeammate(r, u, p, y) that looks the log up afterwards is rejected
\* with "You have already rated this teammate for this project", adds no
\* row and leaves the score as it is
C12_SecondRatingRejected ==
    [][ \A q \in RatesInFlight :
          (/\ q.pc = "findFirst"
           /\ RateSteps(q)
           /\ Rated(q.raterId, q.ratedUserId, q.projectId))
          => RateFails(q, ErrAlreadyRated) ]_vars

\* a second rating of the same teammate on the same project by the same
\* rater has been rejected, and the log holds the first one only
C12_Witness ==
    /\ lastRate.outcome = "rejected"
    /\ lastRate.message = ErrAlreadyRated
    /\ lastRate.raterId # lastRate.ratedUserId
    /\ Len(reputationLog) = 1
    /\ Rated(lastRate.raterId, lastRate.ratedUserId, lastRate.projectId)
    /\ reputationScore[lastRate.ratedUserId] =
          Max0(reputationBase[lastRate.ratedUserId] + reputationLog[1].change)


\* C13: the log holds at most one row for a triple (rater, rated user,
\* project) in every reachable state, also when two rateTeammate calls for
\* the triple overlap
C13_OneRowPerTriple ==
    \A r \in UserIds, u \in UserIds, p \in RatedProjects :
        Cardinality(RowsOf(r, u, p)) <= 1

\* C14: a call is rejected as a duplicate only when the log holds a row of
\* exactly its own triple: a call of a rater who has no row for (u, p) is
\* not rejected with "You have already rated this teammate for this
\* project", whatever rows other raters have
C14_OnlyOwnRowRejects ==
    [][ \A q \in RatesInFlight :
          (/\ q.pc = "findFirst"
           /\ RateSteps(q)
           /\ ~Rated(q.raterId, q.ratedUserId, q.projectId))
          => ~RateFails(q, ErrAlreadyRated) ]_vars


\* the score of u after the first n rows of the log, each row of u applied
\* in order as max(0, score + change) to the score u started with
RECURSIVE ScoreAfter(_, _)
ScoreAfter(u, n) ==
    IF n = 0
    THEN reputationBase[u]
    ELSE IF reputationLog[n].userId = u
         THEN Max0(ScoreAfter(u, n - 1) + reputationLog[n].change)
         ELSE ScoreAfter(u, n - 1)

\* C15: when the calls do not overlap, at every point where none is in
\* flight the stored score of every user is the result of applying the
\* logged adjustments in order, each as max(0, score + adjustment)
C15_ScoreIsClampedFold ==
    rateReq = EmptyBag =>
        \A u \in UserIds :
            reputationScore[u] = ScoreAfter(u, Len(reputationLog))

\* a user at 10 has received two ratings of 1 and is at 0
C15_Witness ==
    /\ rateReq = EmptyBag
    /\ \E u \in UserIds :
          /\ reputationBase[u] = 10
          /\ Len(reputationLog) = 2
          /\ \A i \in 1..2 : /\ reputationLog[i].userId = u
                             /\ RatingOf(reputationLog[i]) = 1
                             /\ reputationLog[i].change = -15
          /\ reputationScore[u] = 0


\* C16: a rating is recorded in full or not at all: in every reachable
\* state a user whose stored score differs from the score the user started
\* with has a row in the log
C16_ScoreChangeHasRow ==
    \A u \in UserIds :
        reputationScore[u] # reputationBase[u] =>
            \E i \in 1..Len(reputationLog) : reputationLog[i].userId = u


\* C17: the adjustment of a rating is -15 for 1, -5 for 2 and for 3, +5 for
\* 4 and +10 for 5; the change stored in every log row, and the adjustment
\* a call carries to its writes and returns, is this value for the rating
\* of the call
C17_AdjustmentTable ==
    LET table == <<-15, -5, -5, 5, 10>>
    IN /\ \A i \in 1..Len(reputationLog) :
             reputationLog[i].change = table[RatingOf(reputationLog[i])]
       /\ \A q \in RatesInFlight :
             q.pc # "findFirst" => q.adjustment = table[q.rating \div 10]
       /\ lastRate.outcome = "resolved" =>
             lastRate.adjustment = table[lastRate.rating \div 10]

\* a rating of 2 and a rating of 4 have been logged, with -5 and +5
C17_Witness ==
    /\ Len(reputationLog) = 2
    /\ RatingOf(reputationLog[1]) = 2 /\ reputationLog[1].change = -5
    /\ RatingOf(reputationLog[2]) = 4 /\ reputationLog[2].change = 5
    /\ lastRate.outcome = "resolved" /\ lastRate.adjustment = 5


\* C18: a call whose rating is not one of the integers 1..5 is rejected
\* with "Rating must be an integer between 1 and 5" in the step in which it
\* is made, before any query: it never comes to be in flight, and the
\* scores and the log are as they were
C18_InvalidRatingRejectedFirst ==
    [][ LET integers1to5 == {Num(k) : k \in 1..5}
        IN /\ \A q \in BagToSet(rateReq') : q.rating \in integers1to5
           /\ (rated' = rated + 1 /\ rateReq' = rateReq)
              => /\ lastRate'.outcome = "rejected"
                 /\ lastRate'.message = ErrValidation
                 /\ lastRate'.rating \notin integers1to5
                 /\ UNCHANGED <<reputationScore, reputationLog>> ]_vars

\* after one rating was recorded, a call with the rating 4.5 was rejected
\* by the validation and the log still holds the one row
C18_Witness ==
    /\ rated = 2
    /\ rateReq = EmptyBag
    /\ Len(reputationLog) = 1
    /\ lastRate.outcome = "rejected"
    /\ lastRate.message = ErrValidation
    /\ lastRate.rating = Num(4) + 5


(* ---------------------- observations on the ranking -------------------- *)
\* the candidates of a list in order, each with its scores
Listing(list) ==
    [i \in 1..Len(list) |->
        [id |-> list[i].id,
         skillMatchPercent |-> list[i].skillMatchPercent,
         domainMatchPercent |-> list[i].domainMatchPercent,
         recentActivityScore |-> list[i].recentActivityScore,
         rankingScore |-> list[i].rankingScore]]

\* C20: every candidate of a returned list is a user other than the
\* requester, available and with a reputationScore of at least 70, in the
\* list and in the rows the run read; the list has at most 20 entries and
\* names no user twice
C20_EligibleAtMostTwenty ==
    recommended.outcome = "resolved" =>
        LET list == recommended.list
            read == recommended.read
        IN /\ Len(list) <= 20
           /\ \A i \in 1..Len(list) :
                 /\ list[i].id # recommended.for
                 /\ list[i].isAvailable = TRUE
                 /\ read.table[list[i].id].isAvailable = TRUE
                 /\ list[i].reputationScore >= 70
                 /\ read.table[list[i].id].reputationScore >= 70
           /\ \A i \in 1..Len(list) : \A j \in 1..Len(list) :
                 list[i].id = list[j].id => i = j

\* more than 20 users qualify, one user is unavailable, one is the
\* requester, and the list has 20 entries
C20_Witness ==
    /\ recommended.outcome = "resolved"
    /\ Len(recommended.list) = 20
    /\ recommended.for \in RankUsers
    /\ users[recommended.for].isAvailable = TRUE
    /\ users[recommended.for].reputationScore >= 70
    /\ \E id \in RankUsers : users[id].isAvailable = FALSE
    /\ Cardinality({id \in RankUsers :
                       /\ id # recommended.for
                       /\ users[id].isAvailable = TRUE
                       /\ users[id].reputationScore >= 70}) > 20


\* the list settled last is in non-increasing rankingScore; it holds the 20
\* members of the pool with the highest scores (all of them when the pool
\* has no more than 20); two candidates of equal rankingScore stand in the
\* order reputation descending and, for equal reputation, ascending place;
\* a pool member left out scores no higher than any listed one and, when it
\* scores the same, comes later in that order
SortedTopTwenty(place) ==
    recommended.outcome = "resolved" =>
        LET list == recommended.list
            read == recommended.read
            pool == Candidates(read.table, read.order, recommended.for)
            score(row) ==
                Scored(row, read.mySkillIds, read.myDomainIds).rankingScore
            before(a, b) ==
                \/ a.reputationScore > b.reputationScore
                \/ /\ a.reputationScore = b.reputationScore
                   /\ place[a.id] < place[b.id]
            listed == {list[i].id : i \in 1..Len(list)}
        IN /\ \A i \in 1..Len(list) : \A j \in 1..Len(list) :
                 i < j => /\ list[i].rankingScore >= list[j].rankingScore
                          /\ list[i].rankingScore = list[j].rankingScore
                             => before(list[i], list[j])
           /\ Len(list) = IF Len(pool) < 20 THEN Len(pool) ELSE 20
           /\ \A i \in 1..Len(list) :
                 \E k \in 1..Len(pool) :
                    /\ pool[k].id = list[i].id
                    /\ score(pool[k]) = list[i].rankingScore
           /\ \A k \in 1..Len(pool) :
                 pool[k].id \notin listed =>
                    \A i \in 1..Len(list) :
                       /\ score(pool[k]) <= list[i].rankingScore
                       /\ score(pool[k]) = list[i].rankingScore
                          => before(list[i], pool[k])

\* C21 as stated: the list is sorted, holds the 20 highest-scoring pool
\* members, and candidates of equal rankingScore stand in the order
\* reputation descending, then arrival (ids are given out in the order of
\* arrival)
C21_TiesInArrivalOrder ==
    SortedTopTwenty([id \in DOMAIN recommended.read.table |-> id])

(* ------------- observations on the scoring functions ------------------- *)
\* the value is 100 * |S1 \cap S2| / |S1 \cup S2| rounded to the nearest
\* integer (no integer is nearer to the quotient), 0 for two empty sets;
\* it lies in 0..100 and the call with the arguments exchanged returns it
JaccardPercent(S1, S2, value) ==
    LET common == Cardinality(S1 \cap S2)
        either == Cardinality(S1 \cup S2)
        off == 100 * common - value * either
    IN /\ value \in 0..100
       /\ either = 0 => value = 0
       /\ 2 * off <= either
       /\ 2 * (0 - off) <= either
       /\ calculateSkillMatchPercent(S2, S1) = value

\* C22 as the claim states it: the returned value is the rounded Jaccard
\* percentage of the two sets, 0 for two empty sets, within 0..100, symmetric
\* in the arguments, and 100 whenever the two sets are identical
C22_IdenticalSetsMatchFully ==
    (calcArgs.fn = "calculateSkillMatchPercent" /\ calcResult # NotCalled) =>
        /\ JaccardPercent(calcArgs.mySkillIds, calcArgs.candidateSkillIds,
                          calcResult)
        /\ calcArgs.mySkillIds = calcArgs.candidateSkillIds
              => calcResult = 100

\* C22 amended: the returned value is the rounded Jaccard percentage of the
\* two sets, 0 for two empty sets, within 0..100, symmetric in the arguments,
\* and 100 whenever the two sets are identical and not empty
C22_SkillMatchIsJaccard ==
    (calcArgs.fn = "calculateSkillMatchPercent" /\ calcResult # NotCalled) =>
        /\ JaccardPercent(calcArgs.mySkillIds, calcArgs.candidateSkillIds,
                          calcResult)
        /\ (/\ calcArgs.mySkillIds = calcArgs.candidateSkillIds
            /\ calcArgs.mySkillIds # {})
              => calcResult = 100

\* 23 skills in common out of 40 in all: the percentage is 57.5, the
\* product of the doubles is 57.49999999999999 and the value is 57, one of
\* the two integers nearest to the percentage
C22_Witness ==
    /\ calcArgs.fn = "calculateSkillMatchPercent"
    /\ calcResult # NotCalled
    /\ Cardinality(calcArgs.mySkillIds \cap calcArgs.candidateSkillIds) = 23
    /\ Cardinality(calcArgs.mySkillIds \cup calcArgs.candidateSkillIds) = 40
    /\ calcArgs.mySkillIds # calcArgs.candidateSkillIds
    /\ calcResult = 57

\* C24: for every count that is not negative the score is 100 less 40 per
\* active project and never below 0: 100, 60, 20 for the counts 0, 1, 2, and
\* 0 from 3 on; one more project never raises it
C24_RecentActivityFallsToZero ==
    (/\ calcArgs.fn = "calculateRecentActivityScore"
     /\ calcResult # NotCalled
     /\ calcArgs.count >= 0) =>
        LET count == calcArgs.count
        IN /\ calcResult = (IF 40 * count < 100 THEN 100 - 40 * count ELSE 0)
           /\ count = 0 => calcResult = 100
           /\ count = 1 => calcResult = 60
           /\ count = 2 => calcResult = 20
           /\ count >= 3 => calcResult = 0
           /\ calcResult >= 0
           /\ calculateRecentActivityScore(count + 1) <= calcResult

\* the score of a user with more than three active projects has been
\* computed
C24_Witness ==
    /\ calcArgs.fn = "calculateRecentActivityScore"
    /\ calcResult # NotCalled
    /\ calcArgs.count > 3
    /\ calcResult = 0

(* ------------------ the ranking score and the domains ------------------ *)
\* C23: ten times the rankingScore of a listed candidate is 5 times the
\* reputationScore plus 3 times the skill match plus 2 times the recent
\* activity, and the domains have no part in it: with the domain set of the
\* requester and of every candidate emptied the run returns the same
\* candidates in the same order with the same scores
C23_ScoreIgnoresDomains ==
    recommended.outcome = "resolved" =>
        LET list == recommended.list
            read == recommended.read
            noDomains == [id \in DOMAIN read.table |->
                             [read.table[id] EXCEPT !.domains = {}]]
            blind == Ranked(noDomains, read.order, recommended.for,
                            read.mySkillIds, {})
        IN /\ \A i \in 1..Len(list) :
                 list[i].rankingScore =
                     5 * list[i].reputationScore
                         + 3 * list[i].skillMatchPercent
                         + 2 * list[i].recentActivityScore
           /\ Len(blind) = Len(list)
           /\ \A i \in 1..Len(list) :
                 /\ blind[i].id = list[i].id
                 /\ blind[i].rankingScore = list[i].rankingScore

\* a list of 20 was returned on which a candidate stands behind another of
\* the same rankingScore whose domain match is lower and whose recent
\* activity differs
C23_Witness ==
    /\ recommended.outcome = "resolved"
    /\ LET list == recommended.list
       IN /\ Len(list) = TopN
          /\ \E i, j \in 1..Len(list) :
                /\ i < j
                /\ list[i].rankingScore = list[j].rankingScore
                /\ list[i].domainMatchPercent < list[j].domainMatchPercent
                /\ list[i].recentActivityScore # list[j].recentActivityScore

(* ------------------------ observations on the hub ---------------------- *)
\* the connections an event of the given name was written to by the handler
\* step taken last
Reached(events, ev) ==
    UNION {events[i].to : i \in {j \in 1..Len(events) : events[j].ev = ev}}

\* C26 as the claim states it: whenever a connection whose socket.userId is
\* u is still connected, the Map has an entry for u (so that a newMessage for
\* u is pushed)
C26_RegistrationKept ==
    \A c \in 1..MaxConns :
        (sockets[c].connected /\ sockets[c].userId # 0)
            => onlineUsers[sockets[c].userId] # 0

\* C25 as the claim states it: when message.create resolves for a message
\* to u, newMessage is written to every connection that authenticated as u
\* and is still connected; and once a connection of u has disconnected the
\* Map has no entry for u (isOnline reports false, nothing is pushed) and
\* the connection is in no room
C25_DeliveryFollowsPresence ==
    [][/\ \A q \in sendReq :
             sendMessage_create(q, TRUE) =>
                 \A c \in 1..MaxConns :
                     (sockets[c].connected
                        /\ sockets[c].userId = q.row.receiverId)
                         => c \in Reached(emitted'.events, "newMessage")
       /\ \A c \in 1..MaxConns :
             (disconnect(c) /\ sockets[c].userId # 0) =>
                 /\ onlineUsers'[sockets[c].userId] = 0
                 /\ sockets'[c].rooms = {}]_vars

\* C27 as the claim states it: an authenticate with a token that fails
\* closes the connection, leaves the Map as it was, joins no room and
\* broadcasts no userOnline
C27_FailureLeavesRegistry ==
    [][\A c \in 1..MaxConns, token \in Tokens :
          (/\ authenticate(c, token)
           /\ ~(token.verifies /\ token.userId # 0)) =>
              /\ ~sockets'[c].connected
              /\ onlineUsers' = onlineUsers
              /\ sockets'[c].rooms \subseteq sockets[c].rooms
              /\ Reached(emitted'.events, "userOnline") = {}]_vars

\* C27 amended: an authenticate with a token that fails closes the
\* connection and registers nothing: no entry is written to the Map, no room
\* is joined, no userOnline is broadcast. The Map is unchanged if the
\* connection had not authenticated before; if it had, closing it deletes
\* the entry of its user as any disconnect does
C27_FailureRegistersNothing ==
    [][\A c \in 1..MaxConns, token \in Tokens :
          (/\ authenticate(c, token)
           /\ ~(token.verifies /\ token.userId # 0)) =>
              /\ ~sockets'[c].connected
              /\ \A u \in Users :
                    onlineUsers'[u] =
                        (IF u = sockets[c].userId THEN 0 ELSE onlineUsers[u])
              /\ sockets'[c].rooms = {}
              /\ sockets'[c].userId = sockets[c].userId
              /\ Reached(emitted'.events, "userOnline") = {}
              /\ announced' = announced]_vars

\* a connection that had authenticated sent a token that failed and was
\* closed, while the other user is still registered
C27_Witness ==
    /\ emitted.op = "authenticate"
    /\ ~sockets[emitted.conn].connected
    /\ sockets[emitted.conn].userId # 0
    /\ Len(emitted.events) = 1
    /\ \E u \in Users : onlineUsers[u] \notin {0, emitted.conn}

\* C28: a disconnect of a connection that had authenticated leaves the Map
\* without an entry for its user and broadcasts userOffline for that user
\* exactly once; a disconnect of a connection that never authenticated
\* leaves the Map as it was and broadcasts nothing; and whenever userOffline
\* is broadcast for a user, userOnline had been broadcast for that user
C28_OfflineOncePerDisconnect ==
    [][/\ \A c \in 1..MaxConns :
             disconnect(c) =>
                 LET userId == sockets[c].userId
                     events == emitted'.events
                 IN IF userId # 0
                       THEN /\ onlineUsers'[userId] = 0
                            /\ Len(events) = 1
                            /\ events[1].ev = "userOffline"
                            /\ events[1].userId = userId
                            /\ events[1].to = Everyone \ {c}
                       ELSE /\ onlineUsers' = onlineUsers
                            /\ events = <<>>
       /\ \A i \in 1..Len(emitted'.events) :
             emitted'.events[i].ev = "userOffline"
                 => emitted'.events[i].userId \in announced]_vars

\* a connection that had authenticated has disconnected and another
\* connection was told so
C28_Witness ==
    /\ emitted.op = "disconnect"
    /\ Len(emitted.events) = 1
    /\ emitted.events[1].ev = "userOffline"
    /\ emitted.events[1].to # {}
    /\ onlineUsers[emitted.events[1].userId] = 0

\* C29 as the claim states it: when notification.create is rejected after
\* the message was stored and messageSent was emitted, no error event is
\* written to the sender and the message row stays
C29_NotificationFailureSuppressed ==
    [][\A q \in sendReq :
          sendMessage_createNotification(q, FALSE) =>
              /\ Reached(emitted'.events, "error") = {}
              /\ \E i \in 1..Len(messages') : messages'[i] = q.row]_vars

\* C30 as the claim states it: a sendMessage from a socket that has not
\* authenticated, with no receiverId, or with a content that is missing or
\* empty after trimming, writes one error event to the sender; no row is
\* created and nothing else is emitted
C30_InvalidSendReportsError ==
    [][\A c \in 1..MaxConns, data \in SendData :
          (/\ sendMessage(c, data)
           /\ \/ data = NoData
              \/ sockets[c].userId = 0
              \/ data.receiverId = 0
              \/ data.content = Undefined
              \/ Trim(data.content) = <<>>) =>
              /\ Len(emitted'.events) = 1
              /\ emitted'.events[1].ev = "error"
              /\ emitted'.events[1].to = {c}
              /\ messages' = messages
              /\ sendReq' = sendReq]_vars

\* C31: a newMessage or messageSent event carries a row that is stored when
\* the event is emitted, with the sender, the receiver and a content that is
\* not empty and has no blank at either end; when message.create is rejected
\* no row is stored, neither event is emitted and one error event is written
\* to the socket of the sender
C31_PersistedBeforeEvents ==
    [][/\ \A i \in 1..Len(emitted'.events) :
             emitted'.events[i].ev \in {"newMessage", "messageSent"} =>
                 LET row == emitted'.events[i].row
                 IN /\ \E k \in 1..Len(messages') : messages'[k] = row
                    /\ row.senderId # 0 /\ row.receiverId # 0
                    /\ row.content # <<>>
                    /\ row.content[1] # " "
                    /\ row.content[Len(row.content)] # " "
       /\ \A q \in sendReq :
             sendMessage_create(q, FALSE) =>
                 /\ messages' = messages
                 /\ Len(emitted'.events) = 1
                 /\ emitted'.events[1].ev = "error"
                 /\ emitted'.events[1].to = {q.conn} \cap Everyone]_vars

\* a message was stored, pushed to a connection of the receiver and
\* acknowledged to the sender
C31_Witness ==
    /\ Len(messages) = 1
    /\ Reached(emitted.events, "newMessage") # {}
    /\ Reached(emitted.events, "messageSent") # {}
    /\ emitted.events[1].row = messages[1]

\* C32 as the claim states it: unless the message exists and the user the
\* connection authenticated as is its receiver, markAsRead ends in an error
\* event, leaves every isRead flag as it was and emits no messageRead
C32_OnlyReceiverMarksRead ==
    [][\A q \in readReq, resolved \in BOOLEAN :
          (/\ markAsRead_update(q, resolved)
           /\ ~(/\ q.messageId \in 1..Len(messages)
                /\ sockets[q.conn].userId =
                      messages[q.messageId].receiverId)) =>
              /\ messages' = messages
              /\ Reached(emitted'.events, "messageRead") = {}
              /\ Len(emitted'.events) = 1
              /\ emitted'.events[1].ev = "error"]_vars

\* C39 as the claim states it: a connected socket is in the room of a user
\* only if that user is the one it authenticated as last, and an entry of
\* the Map for a user names a socket that is connected and authenticated as
\* that user
C39_EventsFollowIdentity ==
    /\ \A c \in 1..MaxConns, u \in Users :
          (sockets[c].connected /\ u \in sockets[c].rooms)
              => sockets[c].userId = u
    /\ \A u \in Users :
          onlineUsers[u] # 0 =>
              /\ sockets[onlineUsers[u]].connected
              /\ sockets[onlineUsers[u]].userId = u

(* --------------- overlapping requests on one project ------------------- *)
\* C33 as the claim states it: no step adds a membership row to a project
\* whose status is Completed, also when the joinProject that adds it read
\* the status before a completeProject committed
C33_NoMemberOfCompleted ==
    [][\A m \in projectMember' \ projectMember :
          projectStatus[m.projectId] # "completed"]_vars

\* C34 as the claim states it: a completeProject that commits finds the
\* project Active, so of two overlapping completions at most one answers 200
\* and every member is decremented once
C34_OneCompletionCommits ==
    [][\A q \in InFlight :
          (/\ q.op = "completeProject"
           /\ q.pc = "transaction"
           /\ Steps(q)
           /\ lastRes' = [op |-> "completeProject", res |-> ResCompleted])
              => projectStatus[q.projectId] = "active"]_vars

\* C35 as the claim states it: the completion takes 1 off a member of the
\* list it read only if the leaveProject of that member does not take it off
\* as well: when the completion commits the member has not left, and no
\* leaveProject of that member that read status Active is about to delete
\* the row or to decrement
C35_LeaveOrCompleteDecrements ==
    [][\A q \in InFlight :
          (/\ q.op = "completeProject"
           /\ q.pc = "transaction"
           /\ Steps(q)
           /\ projectStatus'[q.projectId] # projectStatus[q.projectId])
              => \A u \in q.members :
                    /\ IsMember(q.projectId, u)
                    /\ ~\E l \in InFlight :
                          /\ l.op = "leaveProject"
                          /\ l.userId = u
                          /\ l.projectId = q.projectId
                          /\ l.pc \in {"deleteMember", "decrementCount"}
                          /\ l.status = "active"]_vars

(* ------------------- the score under concurrent calls ------------------ *)
\* C36 as the claim states it: the stored reputationScore of every user is
\* at least 0 in every state, the states between the increment and the clamp
\* of a call in flight included
C36_StoredScoreNeverNegative ==
    \A u \in UserIds : reputationScore[u] >= 0

\* C37 as the claim states it: when two calls by different raters on one
\* user have both been logged and no call is in flight, the stored score of
\* that user is what the two adjustments give when applied one after the
\* other, each as max(0, score + adjustment), in one of the two orders
C37_ConcurrentRatesSerializable ==
    rateReq = EmptyBag =>
        \A u \in UserIds :
            LET rows == {i \in 1..Len(reputationLog) :
                            reputationLog[i].userId = u}
            IN \A i \in rows, j \in rows :
                  (/\ rows = {i, j}
                   /\ RaterOf(reputationLog[i]) # RaterOf(reputationLog[j]))
                      => LET a == reputationLog[i].change
                             b == reputationLog[j].change
                             base == reputationBase[u]
                         IN reputationScore[u] \in
                               {Max0(Max0(base + a) + b),
                                Max0(Max0(base + b) + a)}

\* C38 as the claim states it: the newReputation a resolved call returns is
\* the stored score of the rated user right after the call, when no other
\* call overlaps it
C38_ReturnedIsStored ==
    (rateReq = EmptyBag /\ lastRate.outcome = "resolved")
        => lastRate.newReputation = reputationScore[lastRate.ratedUserId]

(* ------------- observations on the two getRecommendedUsers ------------- *)
\* C40: the handler of GET /users/recommended and the service compute the same
\* ordered list with the same skillMatchPercent, domainMatchPercent,
\* recentActivityScore and rankingScore: the list of a response is the list
\* the service computes from the requester's sets, the rows and the order
\* that the handler read, and the handler answers 500 without a list only
\* for a requester without a row, for whom the service throws
C40_ControllerEqualsService ==
    /\ ctlRes.status = 200 =>
          /\ ctlRes.for \in DOMAIN ctlRes.read.table
          /\ Listing(ctlRes.recommended) =
                Listing(Ranked(ctlRes.read.table, ctlRes.read.order,
                               ctlRes.for, ctlRes.read.mySkillIds,
                               ctlRes.read.myDomainIds))
    /\ ctlRes.status = 500 =>
          /\ ctlRes.for = UnknownUser
          /\ ctlRes.recommended = <<>>

\* a response with a full list of twenty out of a larger pool, whose scores
\* differ, with a candidate of three active projects and one whose skills
\* overlap the requester's in part, computed for a requester whose skills
\* were changed between the two queries of the handler
C40_Witness ==
    /\ ctlRes.status = 200
    /\ Len(ctlRes.recommended) = 20
    /\ ctlRes.totalCandidates > 20
    /\ ctlRes.read.mySkillIds # ctlRes.read.table[ctlRes.for].skills
    /\ LET list == ctlRes.recommended
       IN /\ \E i, j \in 1..Len(list) :
                list[i].rankingScore # list[j].rankingScore
          /\ \E i \in 1..Len(list) : list[i].activeProjectCount = 3
          /\ \E i \in 1..Len(list) : list[i].skillMatchPercent = 57

====
